---- MODULE Spec2Model ----
(***************************************************************************)
(* Memory Bridge of Phoenix (phoenix/memory_bridge.py): the local SQLite   *)
(* store (engrams, sync_queue, reference_conversations), the Hub upload    *)
(* path of remember, the queue drain of sync_pending, the reference        *)
(* archive and the context hydration, run by request threads.              *)
(*                                                                         *)
(* Every action is one atomic step of the code: one SQLite transaction     *)
(* (connect .. commit) or one HTTP request.  Threads interleave between    *)
(* these steps, as the Flask request threads and the CLI thread do.        *)
(*                                                                         *)
(* The practice sessions of the AutonomyModule (phoenix/autonomy.py) are   *)
(* modelled beside it: callers of start_practice and stop_practice and     *)
(* one loop thread per session.                                            *)
(***************************************************************************)
EXTENDS Bags, FiniteSets, Integers, Sequences, TLC

(***************************************************************************)
(* Bounds of the model                                                     *)
(***************************************************************************)
\* Number of remember, remember_for and auto_capture calls made in one
\* behaviour (sync_pending calls are not limited).
MaxRemembers == 3

\* The request threads (Flask worker threads, the CLI thread).
Threads == {"t1", "t2"}

(***************************************************************************)
(* Values                                                                  *)
(***************************************************************************)
\* Python None / SQL NULL in a text column or a text argument.
None == "None"

\* SQL NULL in the integer column hub_id (Hub ids are positive).
NoHubId == 0

\* A body longer than the 200 characters hydrate_context renders: 210.
LongBody ==
    "0123456789012345678901234567890123456789012345678901234567890123456789"
        \o "0123456789012345678901234567890123456789012345678901234567890123456789"
        \o "0123456789012345678901234567890123456789012345678901234567890123456789"

\* A body that shares its leading 50 characters with LongBody: 54.
NearBody == SubSeq(LongBody, 1, 50) \o "-bis"

\* config.CONSTELLATION: member name -> agent_id.
CONSTELLATION ==
    [claude |-> "claude", pascal |-> "pascal", grok |-> "grok", legal_pascal |-> "pascal"]

\* The digest remember_for stores: the body with the proxy marker in front.
ProxiedDigest(agent_name, digest) ==
    "[Stored by Phoenix for " \o agent_name \o "] " \o digest

\* _content_hash: sha256(content).hexdigest()[:32], tabulated over the digests
\* that reach remember in this model \* (the values are the real digests of these strings).
ContentHash(content) ==
    CASE content = "m1" -> "ca0df2c95aa144c1d0ff2ff3c8f967fd"
      [] content = "m2" -> "29c1b289e7522195b362e44f54e05470"
      [] content = "[Stored by Phoenix for grok] m1" -> "5eee739057af062239775c65df61d6ad"
      [] content = "core" -> "0d45f5fd462b8c70bffb10021ac1bcff"
      [] content = "note" -> "edb465624291e4053c6c5ea4b7eb320d"
      [] content = LongBody -> "027691e23707c7da47866aa87eec9e7c"
      [] content = NearBody -> "3f1f65de15b9afdef1eb9c6fb11edac3"
      [] content = "trivia" -> "4389ec33a36fa41084720f84e4e7432a"
      [] OTHER -> "sha256:" \o content

(***************************************************************************)
(* State                                                                   *)
(***************************************************************************)
VARIABLES
    engrams,      \* table engrams, in rowid order
    sync_queue,   \* table sync_queue, in rowid order
    queue_seq,    \* AUTOINCREMENT counter of sync_queue (largest id ever used)
    hub,          \* bag of the uploads the Hub accepted (answered 2xx)
    pc,           \* per thread: the step it is at
    args,         \* per thread: the arguments of the running call
    local_id,     \* per thread: cursor.lastrowid of its INSERT
    hub_result,   \* per thread: what _sync_to_hub returned
    result,       \* per thread: the value the call returns
    pending,      \* per thread: the rows sync_pending read at its start
    cursor,       \* per thread: index in pending of the row being handled
    synced,       \* per thread: sync_pending's counter synced
    failed,       \* per thread: sync_pending's counter failed
    calls,        \* number of remember, remember_for and auto_capture calls so far
    reference_conversations,  \* table reference_conversations, in rowid order
    ref_seq,      \* AUTOINCREMENT counter of reference_conversations
    important,    \* per thread: hydrate_context's list important
    recent_unique, \* per thread: hydrate_context's list recent_unique
    capture,      \* per thread: the local variables of auto_capture
    is_practicing,      \* AutonomyModule.is_practicing
    current_session,    \* AutonomyModule.current_session: its id, 0 for None
    practice_sessions,  \* table practice_sessions, in rowid order
    practice_thread,    \* per session id: where its _practice_loop thread is
    clock               \* datetime.now(), as a logical clock

vars == <<engrams, sync_queue, queue_seq, hub, pc, args, local_id, hub_result,
          result, pending, cursor, synced, failed, calls,
          reference_conversations, ref_seq, important, recent_unique, capture,
          is_practicing, current_session, practice_sessions, practice_thread, clock>>

store == <<engrams, sync_queue, queue_seq>>
syncLocals == <<pending, cursor, synced, failed>>
rememberLocals == <<args, local_id, hub_result>>
archive == <<reference_conversations, ref_seq>>
hydrateLocals == <<important, recent_unique>>
autonomy == <<is_practicing, current_session, practice_sessions, practice_thread, clock>>

NoArgs == [digest |-> None]
NoResult == [status |-> None]
NoHubResult == [kind |-> None]
NoCapture ==
    [chunks |-> <<>>, index |-> 0, importance |-> 0, emotional_valence |-> 0,
     captured_memories |-> <<>>]

Init ==
    /\ engrams = <<>>
    /\ sync_queue = <<>>
    /\ queue_seq = 0
    /\ hub = EmptyBag
    /\ pc = [t \in Threads |-> "idle"]
    /\ args = [t \in Threads |-> NoArgs]
    /\ local_id = [t \in Threads |-> 0]
    /\ hub_result = [t \in Threads |-> NoHubResult]
    /\ result = [t \in Threads |-> NoResult]
    /\ pending = [t \in Threads |-> <<>>]
    /\ cursor = [t \in Threads |-> 0]
    /\ synced = [t \in Threads |-> 0]
    /\ failed = [t \in Threads |-> 0]
    /\ calls = 0
    /\ reference_conversations = <<>>
    /\ ref_seq = 0
    /\ important = [t \in Threads |-> <<>>]
    /\ recent_unique = [t \in Threads |-> <<>>]
    /\ capture = [t \in Threads |-> NoCapture]
    /\ is_practicing = FALSE
    /\ current_session = 0
    /\ practice_sessions = <<>>
    /\ practice_thread = [id \in {} |-> "while"]
    /\ clock = 0

(***************************************************************************)
(* Helpers over the tables                                                 *)
(***************************************************************************)
Range(s) == {s[i] : i \in 1..Len(s)}

\* The JSON body _sync_to_hub builds; project only when truthy.
EngramPayload(a) ==
    IF a.project # None /\ a.project # ""
    THEN [type |-> a.memory_type, digest |-> a.digest, importance |-> a.importance,
          emotional_valence |-> a.emotional_valence, project |-> a.project]
    ELSE [type |-> a.memory_type, digest |-> a.digest, importance |-> a.importance,
          emotional_valence |-> a.emotional_valence]

\* The id the Hub assigns to the upload it accepts next.
NextHubId == BagCardinality(hub) + 1

\* The Hub records an accepted upload: whose token, what body, and which
\* client path sent it (via "remember", or via "sync" for queue row qid).
HubAccept(agent, payload, via, qid) ==
    hub (+) SetToBag({[agent_id |-> agent, engram |-> payload, via |-> via, qid |-> qid]})

(***************************************************************************)
(* remember  (memory_bridge.py 142-217)                                    *)
(***************************************************************************)
\* The argument record of one remember call.
RememberArgs(digest, memory_type, importance, emotional_valence, project, for_agent, sync_immediately) ==
    [digest |-> digest, memory_type |-> memory_type, importance |-> importance,
     emotional_valence |-> emotional_valence, project |-> project,
     for_agent |-> for_agent, sync_immediately |-> sync_immediately]

\* The UNIQUE constraint on engrams.content_hash: does the INSERT violate it?
IntegrityError(content_hash) ==
    \E e \in Range(engrams) : e.content_hash = content_hash

\* Bound of the model: one more remember / remember_for call is admitted.
CountCall == calls < MaxRemembers /\ calls' = calls + 1

\* A caller enters remember: the hash is computed, the connection opened.
RememberCall(t, a) ==
    /\ pc[t] = "idle"
    /\ CountCall
    /\ pc' = [pc EXCEPT ![t] = "r_insert"]
    /\ args' = [args EXCEPT ![t] = a]
    /\ UNCHANGED <<store, hub, local_id, hub_result, result, syncLocals, archive, hydrateLocals, capture, autonomy>>

\* The row the INSERT creates; ids are AUTOINCREMENT and rows are never
\* deleted, created_at is the logical time of the insertion.
NewEngram(a) ==
    [id |-> Len(engrams) + 1, hub_id |-> NoHubId, agent_id |-> a.for_agent,
     type |-> a.memory_type, digest |-> a.digest, importance |-> a.importance,
     emotional_valence |-> a.emotional_valence, project |-> a.project,
     created_at |-> Len(engrams) + 1, synced |-> FALSE,
     content_hash |-> ContentHash(a.digest)]

\* The INSERT with the duplicate going on to the upload: an IntegrityError
\* is reported as "duplicate" but the call still pushes when asked to.
RememberInsert_DuplicateUploads(t) ==
    /\ pc[t] = "r_insert"
    /\ calls' = calls
    /\ IF IntegrityError(ContentHash(args[t].digest))
       THEN /\ result' = [result EXCEPT ![t] =
                            [status |-> "duplicate", message |-> "Memory already stored"]]
            /\ pc' = [pc EXCEPT ![t] =
                        IF args[t].sync_immediately THEN "r_post" ELSE "done"]
            /\ UNCHANGED <<engrams, local_id>>
       ELSE /\ engrams' = Append(engrams, NewEngram(args[t]))
            /\ local_id' = [local_id EXCEPT ![t] = Len(engrams) + 1]
            /\ result' = [result EXCEPT ![t] =
                            [status |-> "stored_locally", local_id |-> Len(engrams) + 1,
                             agent_id |-> args[t].for_agent, synced |-> FALSE]]
            /\ pc' = [pc EXCEPT ![t] =
                        IF args[t].sync_immediately THEN "r_post" ELSE "done"]
    /\ UNCHANGED <<sync_queue, queue_seq, hub, args, hub_result, syncLocals, archive, hydrateLocals, capture, autonomy>>

\* INSERT INTO engrams .. commit, or IntegrityError -> "duplicate".
RememberInsert(t) ==
    /\ pc[t] = "r_insert"
    /\ calls' = calls
    /\ IF IntegrityError(ContentHash(args[t].digest))
       THEN /\ result' = [result EXCEPT ![t] =
                            [status |-> "duplicate", message |-> "Memory already stored"]]
            /\ pc' = [pc EXCEPT ![t] = "done"]
            /\ UNCHANGED <<engrams, local_id>>
       ELSE /\ engrams' = Append(engrams, NewEngram(args[t]))
            /\ local_id' = [local_id EXCEPT ![t] = Len(engrams) + 1]
            /\ result' = [result EXCEPT ![t] =
                            [status |-> "stored_locally", local_id |-> Len(engrams) + 1,
                             agent_id |-> args[t].for_agent, synced |-> FALSE]]
            /\ pc' = [pc EXCEPT ![t] =
                        IF args[t].sync_immediately THEN "r_post" ELSE "done"]
    /\ UNCHANGED <<sync_queue, queue_seq, hub, args, hub_result, syncLocals, archive, hydrateLocals, capture, autonomy>>

\* What the Hub can answer to POST /engrams/upload, as the client sees it:
\* 2xx with an id, 2xx with a body that has no (truthy) id, or a
\* RequestException (timeout, connection error, non-2xx status).
HubReplies == {"ok_id", "ok_noid", "fail"}

\* _sync_to_hub with the exception swallowed: a failed upload is not queued.
SyncToHub_Swallow(t, reply) ==
    /\ pc[t] = "r_post"
    /\ calls' = calls
    /\ hub' = IF reply = "fail" THEN hub
              ELSE HubAccept(args[t].for_agent, EngramPayload(args[t]), "remember", 0)
    /\ hub_result' = [hub_result EXCEPT ![t] =
                        CASE reply = "ok_id" -> [kind |-> "json", id |-> NextHubId]
                          [] reply = "ok_noid" -> [kind |-> "json", id |-> NoHubId]
                          [] reply = "fail" -> [kind |-> "error", id |-> NoHubId]]
    /\ pc' = [pc EXCEPT ![t] = IF reply = "ok_id" THEN "r_update" ELSE "done"]
    /\ UNCHANGED <<store, args, local_id, result, syncLocals, archive, hydrateLocals, capture, autonomy>>

\* _sync_to_hub queueing the engram whatever the Hub answered.
SyncToHub_QueueAlways(t, reply) ==
    /\ pc[t] = "r_post"
    /\ calls' = calls
    /\ hub' = IF reply = "fail" THEN hub
              ELSE HubAccept(args[t].for_agent, EngramPayload(args[t]), "remember", 0)
    /\ hub_result' = [hub_result EXCEPT ![t] =
                        CASE reply = "ok_id" -> [kind |-> "json", id |-> NextHubId]
                          [] reply = "ok_noid" -> [kind |-> "json", id |-> NoHubId]
                          [] reply = "fail" -> [kind |-> "error", id |-> NoHubId]]
    /\ sync_queue' = Append(sync_queue,
                            [id |-> queue_seq + 1, agent_id |-> args[t].for_agent,
                             engram_data |-> EngramPayload(args[t]), attempts |-> 0])
    /\ queue_seq' = queue_seq + 1
    /\ pc' = [pc EXCEPT ![t] = IF reply = "ok_id" THEN "r_update" ELSE "done"]
    /\ UNCHANGED <<engrams, args, local_id, result, syncLocals, archive, hydrateLocals, capture, autonomy>>

\* _sync_to_hub: the POST and what it returns.
SyncToHub(t, reply) ==
    /\ pc[t] = "r_post"
    /\ calls' = calls
    /\ CASE reply = "ok_id" ->
              /\ hub' = HubAccept(args[t].for_agent, EngramPayload(args[t]), "remember", 0)
              /\ hub_result' = [hub_result EXCEPT ![t] = [kind |-> "json", id |-> NextHubId]]
              /\ pc' = [pc EXCEPT ![t] = "r_update"]
         [] reply = "ok_noid" ->
              /\ hub' = HubAccept(args[t].for_agent, EngramPayload(args[t]), "remember", 0)
              /\ hub_result' = [hub_result EXCEPT ![t] = [kind |-> "json", id |-> NoHubId]]
              /\ pc' = [pc EXCEPT ![t] = "done"]
         [] reply = "fail" ->
              /\ hub' = hub
              /\ hub_result' = [hub_result EXCEPT ![t] = [kind |-> "error", id |-> NoHubId]]
              /\ pc' = [pc EXCEPT ![t] = "r_queue"]
    /\ UNCHANGED <<store, args, local_id, result, syncLocals, archive, hydrateLocals, capture, autonomy>>

\* The id of the next row without AUTOINCREMENT: one more than the largest
\* rowid now in the table, so the id of a deleted last row is used again.
NextQueueId_MaxRowid ==
    IF sync_queue = <<>> THEN 1 ELSE sync_queue[Len(sync_queue)].id + 1

\* The id AUTOINCREMENT gives the next sync_queue row: never one used before.
NextQueueId == queue_seq + 1

\* _queue_for_sync: INSERT INTO sync_queue .. commit.
QueueForSync(t) ==
    /\ pc[t] = "r_queue"
    /\ calls' = calls
    /\ sync_queue' = Append(sync_queue,
                            [id |-> NextQueueId, agent_id |-> args[t].for_agent,
                             engram_data |-> EngramPayload(args[t]), attempts |-> 0])
    /\ queue_seq' = NextQueueId
    /\ pc' = [pc EXCEPT ![t] = "done"]
    /\ UNCHANGED <<engrams, hub, rememberLocals, result, syncLocals, archive, hydrateLocals, capture, autonomy>>

\* UPDATE engrams SET synced = 1 WHERE id = local_id: the hub_id left out.
MarkSynced_FlagOnly(rows, id, hub_id) ==
    [i \in 1..Len(rows) |->
        IF rows[i].id = id THEN [rows[i] EXCEPT !.synced = TRUE] ELSE rows[i]]

\* UPDATE engrams SET hub_id = ?, synced = 1: the WHERE clause left out.
MarkSynced_NoWhere(rows, id, hub_id) ==
    [i \in 1..Len(rows) |-> [rows[i] EXCEPT !.hub_id = hub_id, !.synced = TRUE]]

\* UPDATE engrams SET hub_id = ?, synced = 1 WHERE id = local_id.
MarkSynced(rows, id, hub_id) ==
    [i \in 1..Len(rows) |->
        IF rows[i].id = id THEN [rows[i] EXCEPT !.hub_id = hub_id, !.synced = TRUE]
        ELSE rows[i]]

\* remember 204-215: the Hub returned an id.
RememberUpdate(t) ==
    /\ pc[t] = "r_update"
    /\ calls' = calls
    /\ engrams' = MarkSynced(engrams, local_id[t], hub_result[t].id)
    /\ result' = [result EXCEPT ![t] =
                    [status |-> "stored_locally", local_id |-> local_id[t],
                     agent_id |-> args[t].for_agent, synced |-> TRUE,
                     hub_id |-> hub_result[t].id]]
    /\ pc' = [pc EXCEPT ![t] = "done"]
    /\ UNCHANGED <<sync_queue, queue_seq, hub, rememberLocals, syncLocals, archive, hydrateLocals, capture, autonomy>>

\* remember_for (373-399): proxy storage for a constellation member.
RememberForCall(t, agent_name, digest, memory_type, importance, project) ==
    /\ pc[t] = "idle"
    /\ CountCall
    /\ IF agent_name \notin DOMAIN CONSTELLATION
       THEN /\ result' = [result EXCEPT ![t] = [status |-> None, error |-> "Unknown agent"]]
            /\ pc' = [pc EXCEPT ![t] = "done"]
            /\ args' = args
       ELSE /\ args' = [args EXCEPT ![t] =
                   RememberArgs(ProxiedDigest(agent_name, digest), memory_type, importance, 0,
                                IF project # None THEN project
                                ELSE agent_name \o "_memories",
                                CONSTELLATION[agent_name], TRUE)]
            /\ pc' = [pc EXCEPT ![t] = "r_insert"]
            /\ result' = result
    /\ UNCHANGED <<store, hub, local_id, hub_result, syncLocals, archive, hydrateLocals, capture, autonomy>>

\* The call returns to its caller; the thread is free for the next request.
Return(t) ==
    /\ pc[t] = "done"
    /\ calls' = calls
    /\ pc' = [pc EXCEPT ![t] = "idle"]
    /\ args' = [args EXCEPT ![t] = NoArgs]
    /\ local_id' = [local_id EXCEPT ![t] = 0]
    /\ hub_result' = [hub_result EXCEPT ![t] = NoHubResult]
    /\ result' = [result EXCEPT ![t] = NoResult]
    /\ pending' = [pending EXCEPT ![t] = <<>>]
    /\ cursor' = [cursor EXCEPT ![t] = 0]
    /\ synced' = [synced EXCEPT ![t] = 0]
    /\ failed' = [failed EXCEPT ![t] = 0]
    /\ important' = [important EXCEPT ![t] = <<>>]
    /\ recent_unique' = [recent_unique EXCEPT ![t] = <<>>]
    /\ capture' = [capture EXCEPT ![t] = NoCapture]
    /\ UNCHANGED <<store, hub, archive, autonomy>>

(***************************************************************************)
(* sync_pending  (memory_bridge.py 433-467)                                *)
(***************************************************************************)
\* The value sync_pending returns with every row it handled reported as
\* remaining.
SyncResult_AllRemaining(s, f) ==
    [status |-> "sync_done", synced |-> s, failed |-> f, remaining |-> s + f]

\* The value sync_pending returns.
SyncResult(s, f) == [status |-> "sync_done", synced |-> s, failed |-> f, remaining |-> f]

\* SELECT id, agent_id, engram_data FROM sync_queue: the snapshot the loop
\* iterates; with an empty snapshot the call returns at once.
SyncPendingCall(t) ==
    /\ pc[t] = "idle"
    /\ calls' = calls
    /\ pending' = [pending EXCEPT ![t] = sync_queue]
    /\ synced' = [synced EXCEPT ![t] = 0]
    /\ failed' = [failed EXCEPT ![t] = 0]
    /\ IF sync_queue = <<>>
       THEN /\ cursor' = cursor
            /\ result' = [result EXCEPT ![t] = SyncResult(0, 0)]
            /\ pc' = [pc EXCEPT ![t] = "done"]
       ELSE /\ cursor' = [cursor EXCEPT ![t] = 1]
            /\ result' = result
            /\ pc' = [pc EXCEPT ![t] = "s_post"]
    /\ UNCHANGED <<store, hub, rememberLocals, archive, hydrateLocals, capture, autonomy>>

\* The row of the snapshot the loop is at.
CurrentRow(t) == pending[t][cursor[t]]

\* What the Hub can answer to sync_pending, which only calls
\* raise_for_status: accepted (2xx) or an exception.
SyncReplies == {"ok", "fail"}

\* The loop iteration with a failed row queued again instead of left in place.
SyncPost_Requeue(t, reply) ==
    /\ pc[t] = "s_post"
    /\ calls' = calls
    /\ IF reply = "ok"
       THEN /\ hub' = HubAccept(CurrentRow(t).agent_id, CurrentRow(t).engram_data,
                                "sync", CurrentRow(t).id)
            /\ pc' = [pc EXCEPT ![t] = "s_delete"]
            /\ UNCHANGED <<failed, cursor, result, store>>
       ELSE /\ hub' = hub
            /\ sync_queue' = Append(sync_queue, [CurrentRow(t) EXCEPT !.id = queue_seq + 1])
            /\ queue_seq' = queue_seq + 1
            /\ engrams' = engrams
            /\ failed' = [failed EXCEPT ![t] = failed[t] + 1]
            /\ IF cursor[t] < Len(pending[t])
               THEN /\ cursor' = [cursor EXCEPT ![t] = cursor[t] + 1]
                    /\ UNCHANGED <<pc, result>>
               ELSE /\ cursor' = cursor
                    /\ result' = [result EXCEPT ![t] = SyncResult(synced[t], failed[t] + 1)]
                    /\ pc' = [pc EXCEPT ![t] = "done"]
    /\ UNCHANGED <<rememberLocals, pending, synced, archive, hydrateLocals, capture, autonomy>>

\* One loop iteration up to the POST: on an exception the row is counted
\* failed and the loop moves on; on 2xx the DELETE follows.
SyncPost(t, reply) ==
    /\ pc[t] = "s_post"
    /\ calls' = calls
    /\ IF reply = "ok"
       THEN /\ hub' = HubAccept(CurrentRow(t).agent_id, CurrentRow(t).engram_data,
                                "sync", CurrentRow(t).id)
            /\ pc' = [pc EXCEPT ![t] = "s_delete"]
            /\ UNCHANGED <<failed, cursor, result>>
       ELSE /\ hub' = hub
            /\ failed' = [failed EXCEPT ![t] = failed[t] + 1]
            /\ IF cursor[t] < Len(pending[t])
               THEN /\ cursor' = [cursor EXCEPT ![t] = cursor[t] + 1]
                    /\ UNCHANGED <<pc, result>>
               ELSE /\ cursor' = cursor
                    /\ result' = [result EXCEPT ![t] = SyncResult(synced[t], failed[t] + 1)]
                    /\ pc' = [pc EXCEPT ![t] = "done"]
    /\ UNCHANGED <<store, rememberLocals, pending, synced, archive, hydrateLocals, capture, autonomy>>

\* DELETE FROM sync_queue WHERE id <= queue_id.
DeleteFromQueue_UpTo(rows, queue_id) == SelectSeq(rows, LAMBDA r : r.id > queue_id)

\* DELETE FROM sync_queue, the WHERE clause forgotten.
DeleteFromQueue_All(rows, queue_id) == <<>>

\* DELETE FROM sync_queue WHERE id = queue_id.
DeleteFromQueue(rows, queue_id) == SelectSeq(rows, LAMBDA r : r.id # queue_id)

\* The rest of the iteration after a 2xx: delete the row, count it synced.
SyncDelete(t) ==
    /\ pc[t] = "s_delete"
    /\ calls' = calls
    /\ sync_queue' = DeleteFromQueue(sync_queue, CurrentRow(t).id)
    /\ synced' = [synced EXCEPT ![t] = synced[t] + 1]
    /\ IF cursor[t] < Len(pending[t])
       THEN /\ cursor' = [cursor EXCEPT ![t] = cursor[t] + 1]
            /\ pc' = [pc EXCEPT ![t] = "s_post"]
            /\ result' = result
       ELSE /\ cursor' = cursor
            /\ result' = [result EXCEPT ![t] = SyncResult(synced[t] + 1, failed[t])]
            /\ pc' = [pc EXCEPT ![t] = "done"]
    /\ UNCHANGED <<engrams, queue_seq, hub, rememberLocals, pending, failed, archive, hydrateLocals, capture, autonomy>>

(***************************************************************************)
(* _recall_local  (memory_bridge.py 321-369)                               *)
(***************************************************************************)
UpperLetters == "ABCDEFGHIJKLMNOPQRSTUVWXYZ"
LowerLetters == "abcdefghijklmnopqrstuvwxyz"

\* The lower-case letter of every upper-case ASCII letter.
FoldCase ==
    [c \in {SubSeq(UpperLetters, i, i) : i \in 1..Len(UpperLetters)} |->
        LET i == CHOOSE j \in 1..Len(UpperLetters) : SubSeq(UpperLetters, j, j) = c
        IN  SubSeq(LowerLetters, i, i)]

\* SQLite LIKE folds the case of ASCII letters.
LowerChar(c) == IF c \in DOMAIN FoldCase THEN FoldCase[c] ELSE c

RECURSIVE Like(_, _)
\* text LIKE pattern: % matches any run of characters, _ any one character.
Like(text, pattern) ==
    IF pattern = "" THEN text = ""
    ELSE LET ph == SubSeq(pattern, 1, 1)
             pt == SubSeq(pattern, 2, Len(pattern))
         IN  IF ph = "%"
             THEN \E k \in 0..Len(text) : Like(SubSeq(text, k + 1, Len(text)), pt)
             ELSE /\ text # ""
                  /\ ph = "_" \/ LowerChar(ph) = LowerChar(SubSeq(text, 1, 1))
                  /\ Like(SubSeq(text, 2, Len(text)), pt)

RECURSIVE OrderByCreatedAtDesc(_)
\* ORDER BY created_at DESC (rows of equal created_at keep table order).
OrderByCreatedAtDesc(rows) ==
    IF rows = <<>> THEN <<>>
    ELSE LET newest == CHOOSE i \in 1..Len(rows) :
                          /\ \A j \in 1..Len(rows) : rows[j].created_at <= rows[i].created_at
                          /\ \A j \in 1..(i - 1) : rows[j].created_at < rows[i].created_at
             rest == [j \in 1..(Len(rows) - 1) |-> IF j < newest THEN rows[j] ELSE rows[j + 1]]
         IN  <<rows[newest]>> \o OrderByCreatedAtDesc(rest)

\* The query without its LIMIT clause: every matching row is returned.
SqlLimit_NoLimit(rows, limit) == rows

\* SQL LIMIT: a negative limit means no limit.
SqlLimit(rows, limit) ==
    IF limit < 0 \/ limit > Len(rows) THEN rows ELSE SubSeq(rows, 1, limit)

\* The rows _recall_local returns (query and project are None or text).
RecallLocal(query, project, min_importance, limit, agent_id) ==
    LET Matches(e) ==
            /\ e.agent_id = agent_id
            /\ e.importance >= min_importance
            /\ (project # None /\ project # "") => e.project = project
            /\ (query # None /\ query # "") => Like(e.digest, "%" \o query \o "%")
        rows == SqlLimit(OrderByCreatedAtDesc(SelectSeq(engrams, Matches)), limit)
    IN  [i \in 1..Len(rows) |->
            [id |-> rows[i].id, hub_id |-> rows[i].hub_id, agent_id |-> rows[i].agent_id,
             type |-> rows[i].type, digest |-> rows[i].digest,
             importance |-> rows[i].importance,
             emotional_valence |-> rows[i].emotional_valence,
             project |-> rows[i].project, created_at |-> rows[i].created_at]]

(***************************************************************************)
(* Text and time                                                           *)
(***************************************************************************)
\* Python s[:n] on a string or a list; a negative n counts from the end.
PySlice(s, n) ==
    IF n >= 0
    THEN SubSeq(s, 1, IF n < Len(s) THEN n ELSE Len(s))
    ELSE SubSeq(s, 1, IF Len(s) + n > 0 THEN Len(s) + n ELSE 0)

DecimalDigits == "0123456789"

\* datetime.isoformat() of the logical instant now (whole seconds of one
\* minute of one day).
IsoFormat(now) ==
    "2025-12-25T00:00:"
        \o SubSeq(DecimalDigits, (now \div 10) + 1, (now \div 10) + 1)
        \o SubSeq(DecimalDigits, (now % 10) + 1, (now % 10) + 1)

RECURSIVE Join(_, _)
\* sep.join(parts)
Join(sep, parts) ==
    IF parts = <<>> THEN ""
    ELSE IF Len(parts) = 1 THEN parts[1]
    ELSE parts[1] \o sep \o Join(sep, Tail(parts))

\* text.count(c) for a single character c
Count(text, c) == Cardinality({i \in 1..Len(text) : SubSeq(text, i, i) = c})

\* json.dumps of a list of plain strings.
JsonDumps(list) ==
    "[" \o Join(", ", [i \in 1..Len(list) |-> "\"" \o list[i] \o "\""]) \o "]"

\* text.find(sep) counted from 1: where sep first occurs at or after
\* position from, 0 when it does not.
Find(text, sep, from) ==
    LET At(i) == SubSeq(text, i, i + Len(sep) - 1) = sep
        places == {i \in from..(Len(text) - Len(sep) + 1) : At(i)}
    IN  IF places = {} THEN 0 ELSE CHOOSE i \in places : \A j \in places : i <= j

RECURSIVE SplitFrom(_, _, _)
\* The parts of text from position from on, between the occurrences of sep.
SplitFrom(text, sep, from) ==
    LET at == Find(text, sep, from)
    IN  IF at = 0 THEN <<SubSeq(text, from, Len(text))>>
        ELSE <<SubSeq(text, from, at - 1)>> \o SplitFrom(text, sep, at + Len(sep))

\* text.split(sep)
Split(text, sep) == SplitFrom(text, sep, 1)

\* json.loads that yields the text as it is stored, without parsing it.
JsonLoads_Raw(text) == <<text>>

\* json.loads of the text json.dumps wrote for a list of plain strings
\* (strings without quotes or backslashes, which JSON would escape).
JsonLoads(text) ==
    LET inner == SubSeq(text, 2, Len(text) - 1)
        items == Split(inner, ", ")
    IN  IF inner = "" THEN <<>>
        ELSE [i \in 1..Len(items) |-> SubSeq(items[i], 2, Len(items[i]) - 1)]

\* Python truthiness of an optional text argument.
Truthy(x) == x # None /\ x # ""

(***************************************************************************)
(* archive_conversation, search_reference  (memory_bridge.py 471-563)      *)
(***************************************************************************)
\* Number of archive_conversation calls made in one behaviour.
MaxArchives == 2

\* The argument record of one archive_conversation call; participants and
\* tags are lists, the empty list standing for None as well (both falsy).
ArchiveArgs(conversation_id, transcript, title, summary, participants, tags, started_at, ended_at) ==
    [conversation_id |-> conversation_id, transcript |-> transcript, title |-> title,
     summary |-> summary, participants |-> participants, tags |-> tags,
     started_at |-> started_at, ended_at |-> ended_at]

\* The row INSERT OR REPLACE writes; id and created_at come from the
\* AUTOINCREMENT counter and the clock, which both only grow.
NewConversation(a) ==
    [id |-> ref_seq + 1,
     conversation_id |-> a.conversation_id,
     title |-> a.title,
     participants |-> IF a.participants # <<>> THEN JsonDumps(a.participants) ELSE None,
     summary |-> a.summary,
     full_transcript |-> a.transcript,
     message_count |-> Count(a.transcript, "\n") + 1,
     started_at |-> IF Truthy(a.started_at) THEN a.started_at ELSE IsoFormat(ref_seq + 1),
     ended_at |-> a.ended_at,
     tags |-> IF a.tags # <<>> THEN JsonDumps(a.tags) ELSE None,
     created_at |-> ref_seq + 1]

\* A plain INSERT into a table without the UNIQUE constraint: the row is
\* added beside the row that holds the id.
InsertOrReplace_Append(rows, row) == Append(rows, row)

\* INSERT OR IGNORE: the row that holds the id is kept, the new row dropped.
InsertOrReplace_KeepFirst(rows, row) ==
    IF \E r \in Range(rows) : r.conversation_id = row.conversation_id
    THEN rows ELSE Append(rows, row)

\* INSERT OR REPLACE on the UNIQUE conversation_id: the row that holds the
\* id is deleted, the new row is added.
InsertOrReplace(rows, row) ==
    Append(SelectSeq(rows, LAMBDA r : r.conversation_id # row.conversation_id), row)

\* archive_conversation: one transaction; a NULL conversation_id violates
\* NOT NULL and the exception is returned as an error.
ArchiveConversation(t, a) ==
    /\ pc[t] = "idle"
    /\ ref_seq < MaxArchives
    /\ IF a.conversation_id = None
       THEN /\ result' = [result EXCEPT ![t] = [status |-> None, error |-> "IntegrityError"]]
            /\ UNCHANGED archive
       ELSE /\ reference_conversations' =
                   InsertOrReplace(reference_conversations, NewConversation(a))
            /\ ref_seq' = ref_seq + 1
            /\ result' = [result EXCEPT ![t] =
                            [status |-> "archived", conversation_id |-> a.conversation_id,
                             message_count |-> Count(a.transcript, "\n") + 1]]
    /\ pc' = [pc EXCEPT ![t] = "done"]
    /\ UNCHANGED <<store, hub, rememberLocals, syncLocals, calls, hydrateLocals, capture, autonomy>>

\* column LIKE pattern, NULL matching nothing.
NullableLike(text, pattern) == text # None /\ Like(text, pattern)

\* search_reference: the matching conversations, newest first, with a
\* preview in place of the transcript.
SearchReference(query, limit) ==
    LET pattern == "%" \o query \o "%"
        Matches(r) ==
            \/ NullableLike(r.title, pattern)
            \/ NullableLike(r.summary, pattern)
            \/ NullableLike(r.tags, pattern)
            \/ NullableLike(r.full_transcript, pattern)
        rows == SqlLimit(OrderByCreatedAtDesc(SelectSeq(reference_conversations, Matches)), limit)
    IN  [i \in 1..Len(rows) |->
            [id |-> rows[i].id, conversation_id |-> rows[i].conversation_id,
             title |-> rows[i].title, summary |-> rows[i].summary,
             participants |-> IF Truthy(rows[i].participants)
                              THEN JsonLoads(rows[i].participants) ELSE <<>>,
             message_count |-> rows[i].message_count,
             started_at |-> rows[i].started_at,
             tags |-> IF Truthy(rows[i].tags) THEN JsonLoads(rows[i].tags) ELSE <<>>,
             preview |-> SubSeq(rows[i].full_transcript, 1,
                                IF Len(rows[i].full_transcript) < 500
                                THEN Len(rows[i].full_transcript) ELSE 500)]]

\* A caller runs search_reference: one SELECT, the rows returned.
SearchArchive(t, query, limit) ==
    /\ pc[t] = "idle"
    /\ args' = [args EXCEPT ![t] = [digest |-> None, query |-> query, limit |-> limit]]
    /\ result' = [result EXCEPT ![t] =
                    [status |-> "references", rows |-> SearchReference(query, limit)]]
    /\ pc' = [pc EXCEPT ![t] = "done"]
    /\ UNCHANGED <<store, hub, archive, local_id, hub_result, syncLocals, calls, hydrateLocals, capture, autonomy>>

\* The value get_conversation returns: the row that holds the id, its
\* lists parsed, or None (status "absent") when no row holds it.
GetConversationValue(conversation_id) ==
    LET rows == SelectSeq(reference_conversations,
                          LAMBDA r : r.conversation_id = conversation_id)
        row == rows[1]
    IN  IF rows = <<>> THEN [status |-> "absent"]
        ELSE [status |-> "conversation", id |-> row.id,
              conversation_id |-> row.conversation_id, title |-> row.title,
              participants |-> IF Truthy(row.participants)
                               THEN JsonLoads(row.participants) ELSE <<>>,
              summary |-> row.summary, full_transcript |-> row.full_transcript,
              message_count |-> row.message_count, started_at |-> row.started_at,
              ended_at |-> row.ended_at,
              tags |-> IF Truthy(row.tags) THEN JsonLoads(row.tags) ELSE <<>>,
              created_at |-> row.created_at]

\* A caller runs get_conversation: one SELECT, the row returned.
GetConversation(t, conversation_id) ==
    /\ pc[t] = "idle"
    /\ args' = [args EXCEPT ![t] = [digest |-> None, conversation_id |-> conversation_id]]
    /\ result' = [result EXCEPT ![t] = GetConversationValue(conversation_id)]
    /\ pc' = [pc EXCEPT ![t] = "done"]
    /\ UNCHANGED <<store, hub, archive, local_id, hub_result, syncLocals, calls, hydrateLocals, capture, autonomy>>

(***************************************************************************)
(* recall  (memory_bridge.py 265-319)                                      *)
(***************************************************************************)
\* What the Hub can answer to GET /engrams/retrieve, as recall sees it: a
\* list of engrams, an empty list, or an exception (timeout, connection
\* error, non-2xx status).
RetrieveReplies == {"engrams", "empty", "fail"}

RECURSIVE BagToSeq(_)
\* The uploads the Hub holds, in the order the Hub lists them.
BagToSeq(b) ==
    IF b = EmptyBag THEN <<>>
    ELSE LET h == CHOOSE x \in BagToSet(b) : TRUE
         IN  <<h>> \o BagToSeq(b (-) SetToBag({h}))

\* The engram the Hub returns for an upload it holds; every upload arrives
\* under the one token of the bridge, and the Hub stamps it with its own
\* clock.
HubEngram(h) ==
    [digest |-> h.engram.digest, type |-> h.engram.type,
     importance |-> h.engram.importance,
     emotional_valence |-> h.engram.emotional_valence, created_at |-> 0]

\* _recall_from_hub when the Hub answers with its engrams that pass the
\* filters of the request.
RecallFromHub(query, project, min_importance, limit) ==
    LET Matches(h) ==
            /\ h.engram.importance >= min_importance
            /\ Truthy(project) =>
                  ("project" \in DOMAIN h.engram /\ h.engram.project = project)
            /\ Truthy(query) => Like(h.engram.digest, "%" \o query \o "%")
        held == SelectSeq(BagToSeq(hub), Matches)
    IN  SqlLimit([i \in 1..Len(held) |-> HubEngram(held[i])], limit)

\* recall: the Hub's engrams when it returned some, else the local rows.
Recall(reply, query, project, min_importance, limit, from_agent, local_only) ==
    IF ~local_only /\ reply = "engrams"
          /\ RecallFromHub(query, project, min_importance, limit) # <<>>
    THEN RecallFromHub(query, project, min_importance, limit)
    ELSE RecallLocal(query, project, min_importance, limit, from_agent)

\* The argument record of one recall call.
RecallArgs(query, project, min_importance, limit, from_agent, local_only) ==
    [digest |-> None, query |-> query, project |-> project,
     min_importance |-> min_importance, limit |-> limit,
     from_agent |-> from_agent, local_only |-> local_only]

\* A caller enters recall: with local_only the Hub is not asked.
RecallCall(t, a) ==
    /\ pc[t] = "idle"
    /\ args' = [args EXCEPT ![t] = a]
    /\ pc' = [pc EXCEPT ![t] = IF a.local_only THEN "q_local" ELSE "q_hub"]
    /\ UNCHANGED <<store, hub, archive, local_id, hub_result, result, syncLocals, calls,
                   hydrateLocals, capture, autonomy>>

\* The request to the Hub with its exception passed on to the caller of
\* recall instead of caught.
RecallHub_Raises(t, reply) ==
    /\ pc[t] = "q_hub"
    /\ LET a == args[t]
           hub_memories == RecallFromHub(a.query, a.project, a.min_importance, a.limit)
       IN  CASE reply = "engrams" /\ hub_memories # <<>> ->
                  /\ hub_result' = [hub_result EXCEPT ![t] = [kind |-> "json", id |-> NoHubId]]
                  /\ result' = [result EXCEPT ![t] =
                                  [status |-> "recalled", source |-> "hub", rows |-> hub_memories]]
                  /\ pc' = [pc EXCEPT ![t] = "done"]
             [] reply = "fail" ->
                  /\ hub_result' = [hub_result EXCEPT ![t] = [kind |-> "error", id |-> NoHubId]]
                  /\ result' = [result EXCEPT ![t] = [status |-> "RequestException"]]
                  /\ pc' = [pc EXCEPT ![t] = "done"]
             [] OTHER ->
                  /\ hub_result' = [hub_result EXCEPT ![t] = [kind |-> "json", id |-> NoHubId]]
                  /\ result' = result
                  /\ pc' = [pc EXCEPT ![t] = "q_local"]
    /\ UNCHANGED <<store, hub, archive, args, local_id, syncLocals, calls, hydrateLocals, capture, autonomy>>

\* recall 277-288: the request to the Hub.  Its engrams are returned when
\* it answered with some; an empty answer and an exception (timeout,
\* connection error, non-2xx status) lead on to the local query.
RecallHub(t, reply) ==
    /\ pc[t] = "q_hub"
    /\ LET a == args[t]
           hub_memories == RecallFromHub(a.query, a.project, a.min_importance, a.limit)
       IN  CASE reply = "engrams" /\ hub_memories # <<>> ->
                  /\ hub_result' = [hub_result EXCEPT ![t] = [kind |-> "json", id |-> NoHubId]]
                  /\ result' = [result EXCEPT ![t] =
                                  [status |-> "recalled", source |-> "hub", rows |-> hub_memories]]
                  /\ pc' = [pc EXCEPT ![t] = "done"]
             [] reply = "fail" ->
                  /\ hub_result' = [hub_result EXCEPT ![t] = [kind |-> "error", id |-> NoHubId]]
                  /\ result' = result
                  /\ pc' = [pc EXCEPT ![t] = "q_local"]
             [] OTHER ->
                  /\ hub_result' = [hub_result EXCEPT ![t] = [kind |-> "json", id |-> NoHubId]]
                  /\ result' = result
                  /\ pc' = [pc EXCEPT ![t] = "q_local"]
    /\ UNCHANGED <<store, hub, archive, args, local_id, syncLocals, calls, hydrateLocals, capture, autonomy>>

\* recall 290-296: the local query, whose rows are returned.
RecallFallback(t) ==
    /\ pc[t] = "q_local"
    /\ LET a == args[t]
       IN  result' = [result EXCEPT ![t] =
              [status |-> "recalled", source |-> "local",
               rows |-> RecallLocal(a.query, a.project, a.min_importance, a.limit,
                                    a.from_agent)]]
    /\ pc' = [pc EXCEPT ![t] = "done"]
    /\ UNCHANGED <<store, hub, archive, rememberLocals, syncLocals, calls, hydrateLocals, capture, autonomy>>

(***************************************************************************)
(* hydrate_context, hydrate_for_wakeup  (memory_bridge.py 597-692)         *)
(***************************************************************************)
\* The argument record of one hydrate_context call; wakeup marks the call
\* made by hydrate_for_wakeup, which returns the context alone.
HydrateArgs(query, include_recent, include_important, include_reference, memory_limit, reference_limit, max_chars, wakeup) ==
    [query |-> query, include_recent |-> include_recent,
     include_important |-> include_important, include_reference |-> include_reference,
     memory_limit |-> memory_limit, reference_limit |-> reference_limit,
     max_chars |-> max_chars, wakeup |-> wakeup, digest |-> None]

\* hydrate_for_wakeup(memory_limit): the arguments it passes on.
WakeupArgs(memory_limit) == HydrateArgs(None, TRUE, TRUE, FALSE, memory_limit, 3, 3000, TRUE)

\* A caller enters hydrate_context.
HydrateCall(t, a) ==
    /\ pc[t] = "idle"
    /\ pc' = [pc EXCEPT ![t] = "h_important"]
    /\ args' = [args EXCEPT ![t] = a]
    /\ UNCHANGED <<store, hub, archive, local_id, hub_result, result, syncLocals, calls,
                   hydrateLocals, capture, autonomy>>

\* The important tier with the Hub's answer written through to the local
\* cache: the first engram the Hub returned is inserted into engrams.
HydrateImportant_CachesHub(t, reply) ==
    /\ pc[t] = "h_important"
    /\ LET rows == IF args[t].include_important
                   THEN Recall(reply, args[t].query, None, 4, args[t].memory_limit,
                               "claude", FALSE)
                   ELSE <<>>
       IN  /\ important' = [important EXCEPT ![t] = rows]
           /\ engrams' =
                 IF rows # <<>> /\ rows[1].created_at = 0
                 THEN Append(engrams,
                             NewEngram(RememberArgs(rows[1].digest, rows[1].type,
                                                    rows[1].importance, 0, None, "hub", FALSE)))
                 ELSE engrams
    /\ pc' = [pc EXCEPT ![t] = "h_recent"]
    /\ UNCHANGED <<sync_queue, queue_seq, hub, archive, rememberLocals, result, syncLocals,
                   calls, recent_unique, capture, autonomy>>

\* 1. the important tier: recall(min_importance = 4).
HydrateImportant(t, reply) ==
    /\ pc[t] = "h_important"
    /\ important' = [important EXCEPT ![t] =
                        IF args[t].include_important
                        THEN Recall(reply, args[t].query, None, 4, args[t].memory_limit,
                                    "claude", FALSE)
                        ELSE <<>>]
    /\ pc' = [pc EXCEPT ![t] = "h_recent"]
    /\ UNCHANGED <<store, hub, archive, rememberLocals, result, syncLocals, calls,
                   recent_unique, capture, autonomy>>

\* The digests of the important tier taken whole: the recent tier is
\* compared by full equality with a prefix.
SeenDigests_Whole(rows) == {rows[i].digest : i \in 1..Len(rows)}

\* m.get('digest', '')[:50] of the important tier.
SeenDigests(rows) == {PySlice(rows[i].digest, 50) : i \in 1..Len(rows)}

\* The recent tier recalled without its importance threshold.
HydrateRecent_AnyImportance(t, reply) ==
    /\ pc[t] = "h_recent"
    /\ recent_unique' = [recent_unique EXCEPT ![t] =
          IF args[t].include_recent
          THEN LET recent == Recall(reply, args[t].query, None, 0, args[t].memory_limit,
                                    "claude", FALSE)
                   seen_digests == SeenDigests(important[t])
               IN  PySlice(SelectSeq(recent, LAMBDA m : PySlice(m.digest, 50) \notin seen_digests),
                           args[t].memory_limit \div 2)
          ELSE <<>>]
    /\ pc' = [pc EXCEPT ![t] = "h_refs"]
    /\ UNCHANGED <<store, hub, archive, rememberLocals, result, syncLocals, calls,
                   important, capture, autonomy>>

\* 2. the recent tier: recall(min_importance = 3) without the rows whose
\* leading 50 characters are in the important tier, cut to memory_limit // 2.
HydrateRecent(t, reply) ==
    /\ pc[t] = "h_recent"
    /\ recent_unique' = [recent_unique EXCEPT ![t] =
          IF args[t].include_recent
          THEN LET recent == Recall(reply, args[t].query, None, 3, args[t].memory_limit,
                                    "claude", FALSE)
                   seen_digests == SeenDigests(important[t])
               IN  PySlice(SelectSeq(recent, LAMBDA m : PySlice(m.digest, 50) \notin seen_digests),
                           args[t].memory_limit \div 2)
          ELSE <<>>]
    /\ pc' = [pc EXCEPT ![t] = "h_refs"]
    /\ UNCHANGED <<store, hub, archive, rememberLocals, result, syncLocals, calls,
                   important, capture, autonomy>>

\* The line of one memory: "- [date] body", date and body cut.
MemoryLine(mem) ==
    "- [" \o PySlice(IsoFormat(mem.created_at), 10) \o "] " \o PySlice(mem.digest, 200)

\* The line of one reference conversation (a title of None prints "None").
ReferenceLine(ref) ==
    "- [" \o PySlice(ref.started_at, 10) \o "] " \o ref.title \o ": "
        \o PySlice(ref.summary, 150)

\* context_parts: each tier under its heading, when it has items.
ContextParts(imp, rec, refs) ==
    (IF imp # <<>>
     THEN <<"## Important Memories">> \o [i \in 1..Len(imp) |-> MemoryLine(imp[i])]
     ELSE <<>>)
    \o (IF rec # <<>>
        THEN <<"\n## Recent Memories">> \o [i \in 1..Len(rec) |-> MemoryLine(rec[i])]
        ELSE <<>>)
    \o (IF refs # <<>>
        THEN <<"\n## Relevant Past Conversations">>
                 \o [i \in 1..Len(refs) |-> ReferenceLine(refs[i])]
        ELSE <<>>)

TruncationMarker == "\n... [truncated]"

\* The truncation taken one character early: a text of exactly max_chars
\* characters is cut as well.
Truncate_AtLimit(full_context, max_chars) ==
    IF Len(full_context) >= max_chars
    THEN PySlice(full_context, max_chars) \o TruncationMarker
    ELSE full_context

\* Combine and truncate if needed.
Truncate(full_context, max_chars) ==
    IF Len(full_context) > max_chars
    THEN PySlice(full_context, max_chars) \o TruncationMarker
    ELSE full_context

\* The value hydrate_context returns (hydrated_at, the wall clock time of
\* the call, is left out); status tags the kind of value in the model.
HydrateResult(imp, rec, refs, max_chars) ==
    LET full_context == Truncate(Join("\n", ContextParts(imp, rec, refs)), max_chars)
    IN  [status |-> "hydrated", context |-> full_context,
         memories_included |-> Len(imp) + Len(rec),
         character_count |-> Len(full_context)]

\* 3. the reference tier, the composition and the return.  A matching
\* conversation archived without summary makes the rendering slice None,
\* which raises TypeError out of hydrate_context.
HydrateReference(t) ==
    /\ pc[t] = "h_refs"
    /\ LET a == args[t]
           refs == IF a.include_reference /\ Truthy(a.query)
                   THEN SearchReference(a.query, a.reference_limit)
                   ELSE <<>>
           hydrated == HydrateResult(important[t], recent_unique[t], refs, a.max_chars)
       IN  result' = [result EXCEPT ![t] =
              IF \E i \in 1..Len(refs) : refs[i].summary = None
              THEN [status |-> "TypeError"]
              ELSE IF a.wakeup
                   THEN [status |-> "wakeup", context |-> hydrated.context]
                   ELSE hydrated]
    /\ pc' = [pc EXCEPT ![t] = "done"]
    /\ UNCHANGED <<store, hub, archive, rememberLocals, syncLocals, calls, hydrateLocals, capture, autonomy>>

(***************************************************************************)
(* auto_capture  (memory_bridge.py 696-808)                                *)
(***************************************************************************)
\* Importance keywords (score boost).
high_importance_keywords ==
    <<"important", "remember", "critical", "essential", "key",
      "milestone", "breakthrough", "achievement", "significant",
      "never forget", "always remember", "family", "love">>

moderate_importance_keywords ==
    <<"phoenix", "project", "goal", "plan", "built", "created",
      "deployed", "learned", "realized", "understood", "decided",
      "gena", "grok", "pascal", "constellation">>

\* Emotional valence keywords.
positive_keywords ==
    <<"love", "wonderful", "amazing", "excited", "happy", "proud",
      "grateful", "beautiful", "incredible", "perfect", "joy",
      "thank you", "awesome", "brilliant", "family">>

negative_keywords ==
    <<"concerned", "worried", "difficult", "challenging", "frustrated",
      "confused", "stuck", "broken", "failed", "error">>

\* The characters str.strip() removes.
Whitespace == {" ", "\n", "\t", "\r"}

\* text.strip()
Strip(text) ==
    LET inked == {i \in 1..Len(text) : SubSeq(text, i, i) \notin Whitespace}
    IN  IF inked = {} THEN ""
        ELSE SubSeq(text, CHOOSE i \in inked : \A j \in inked : i <= j,
                    CHOOSE i \in inked : \A j \in inked : j <= i)

RECURSIVE Lower(_)
\* text.lower() over ASCII, by halves.
Lower(text) ==
    IF Len(text) <= 1 THEN LowerChar(text)
    ELSE Lower(SubSeq(text, 1, Len(text) \div 2))
            \o Lower(SubSeq(text, (Len(text) \div 2) + 1, Len(text)))

\* part in text
In(part, text) == Find(text, part, 1) # 0

\* any(kw in text for kw in keywords)
AnyIn(keywords, text) == \E k \in 1..Len(keywords) : In(keywords[k], text)

RECURSIVE Decimal(_)
\* str(n) of a natural number
Decimal(n) ==
    IF n < 10 THEN SubSeq(DecimalDigits, n + 1, n + 1)
    ELSE Decimal(n \div 10) \o SubSeq(DecimalDigits, (n % 10) + 1, (n % 10) + 1)

\* [c.strip() for c in transcript.split(sep) if c.strip()]
StrippedChunks(transcript, sep) ==
    LET parts == Split(transcript, sep)
        stripped == [i \in 1..Len(parts) |-> Strip(parts[i])]
    IN  SelectSeq(stripped, LAMBDA c : c # "")

\* auto_capture 738-741: the chunks of the transcript, by paragraph, or by
\* line when there is no paragraph.
Chunks(transcript) ==
    IF StrippedChunks(transcript, "\n\n") # <<>>
    THEN StrippedChunks(transcript, "\n\n")
    ELSE StrippedChunks(transcript, "\n")

\* The importance score with the moderate keywords looked at first: a chunk
\* with a keyword of each list scores 0.7.
ImportanceScore_ModerateFirst(chunk_lower) ==
    IF AnyIn(moderate_importance_keywords, chunk_lower) THEN 7
    ELSE IF AnyIn(high_importance_keywords, chunk_lower) THEN 9
    ELSE 5

\* auto_capture 751-757: the importance score of a chunk, in tenths
\* (0.9, 0.7 and 0.5 are 9, 7 and 5).
ImportanceScore(chunk_lower) ==
    IF AnyIn(high_importance_keywords, chunk_lower) THEN 9
    ELSE IF AnyIn(moderate_importance_keywords, chunk_lower) THEN 7
    ELSE 5

\* The emotional valence with the negative keywords looked at first: a
\* chunk with a keyword of each list gets -0.3.
EmotionalValence_NegativeFirst(chunk_lower) ==
    IF AnyIn(negative_keywords, chunk_lower) THEN 0 - 3
    ELSE IF AnyIn(positive_keywords, chunk_lower) THEN 7
    ELSE 0

\* auto_capture 763-768: the emotional valence of a chunk, in tenths
\* (0.7, -0.3 and 0.0 are 7, -3 and 0).
EmotionalValence(chunk_lower) ==
    IF AnyIn(positive_keywords, chunk_lower) THEN 7
    ELSE IF AnyIn(negative_keywords, chunk_lower) THEN 0 - 3
    ELSE 0

\* auto_capture 771: max(1, min(5, int(importance * 5))) of a score in
\* tenths; int() drops the fraction.
ImportanceInt(importance) ==
    LET scaled == (importance * 5) \div 10
        capped == IF scaled < 5 THEN scaled ELSE 5
    IN  IF capped > 1 THEN capped ELSE 1

\* No noise floor: no chunk is skipped for its length.
TooShort_Never(chunk) == FALSE

\* The test of the noise floor taken one character late: a chunk of
\* exactly 20 characters is skipped as well.
TooShort_AtFloor(chunk) == Len(chunk) <= 20

\* auto_capture 746: skip very short chunks.
TooShort(chunk) == Len(chunk) < 20

\* auto_capture 774: the digest of a chunk, cut at 500 characters.
ChunkDigest(chunk) == IF Len(chunk) > 500 THEN PySlice(chunk, 500) ELSE chunk

\* auto_capture 786: the preview of a digest in the returned list.
DigestPreview(digest) ==
    IF Len(digest) > 100 THEN PySlice(digest, 100) \o "..." ELSE digest

\* The returned list with only the segments that made a new engram: one
\* that remember calls a duplicate is not listed.
Captured_StoredOnly(captured_memories, digest, importance_int, emotional_valence, status) ==
    IF status # "stored_locally" THEN captured_memories
    ELSE Append(captured_memories,
                [digest_preview |-> DigestPreview(digest), importance |-> importance_int,
                 emotional_valence |-> emotional_valence, stored |-> TRUE])

\* auto_capture 785-790: captured_memories.append(..), status being the
\* status remember returned.
Captured(captured_memories, digest, importance_int, emotional_valence, status) ==
    Append(captured_memories,
           [digest_preview |-> DigestPreview(digest), importance |-> importance_int,
            emotional_valence |-> emotional_valence,
            stored |-> status = "stored_locally"])

\* remember run from its start to its return within one step of its
\* caller: the tables and the Hub after it, and the value it returns.
RememberWhole(a, reply) ==
    LET id == Len(engrams) + 1
        inserted == Append(engrams, NewEngram(a))
        payload == EngramPayload(a)
        unchanged == [engrams |-> engrams, sync_queue |-> sync_queue,
                      queue_seq |-> queue_seq, hub |-> hub]
        Stored(tables, fields) ==
            [tables EXCEPT !.engrams = inserted] @@
                [result |-> [status |-> "stored_locally", local_id |-> id,
                             agent_id |-> a.for_agent, synced |-> FALSE] @@ fields]
    IN  IF IntegrityError(ContentHash(a.digest))
        THEN unchanged @@
                [result |-> [status |-> "duplicate", message |-> "Memory already stored"]]
        ELSE IF ~a.sync_immediately THEN Stored(unchanged, <<>>)
        ELSE CASE reply = "ok_id" ->
                    [engrams |-> MarkSynced(inserted, id, NextHubId),
                     sync_queue |-> sync_queue, queue_seq |-> queue_seq,
                     hub |-> HubAccept(a.for_agent, payload, "remember", 0),
                     result |-> [status |-> "stored_locally", local_id |-> id,
                                 agent_id |-> a.for_agent, synced |-> TRUE,
                                 hub_id |-> NextHubId]]
               [] reply = "ok_noid" ->
                    Stored([unchanged EXCEPT
                               !.hub = HubAccept(a.for_agent, payload, "remember", 0)], <<>>)
               [] reply = "fail" ->
                    Stored([unchanged EXCEPT
                               !.sync_queue =
                                   Append(sync_queue,
                                          [id |-> NextQueueId, agent_id |-> a.for_agent,
                                           engram_data |-> payload, attempts |-> 0]),
                               !.queue_seq = NextQueueId], <<>>)

\* The tables and the Hub take the values a remember call left.
Apply(remembered) ==
    /\ engrams' = remembered.engrams
    /\ sync_queue' = remembered.sync_queue
    /\ queue_seq' = remembered.queue_seq
    /\ hub' = remembered.hub

\* Bound of the model: the number of auto_capture calls in one run.
MaxCaptures == 2

\* Bound of the model: one more auto_capture call is admitted.
CountCapture == calls < MaxCaptures /\ calls' = calls + 1

\* The argument record of one auto_capture call; min_importance in tenths.
CaptureArgs(transcript, conversation_id, min_importance) ==
    [digest |-> None, transcript |-> transcript, conversation_id |-> conversation_id,
     min_importance |-> min_importance]

\* A caller enters auto_capture: the transcript is split into chunks.
AutoCaptureCall(t, a) ==
    /\ pc[t] = "idle"
    /\ CountCapture
    /\ args' = [args EXCEPT ![t] = a]
    /\ capture' = [capture EXCEPT ![t] =
                     [NoCapture EXCEPT !.chunks = Chunks(a.transcript), !.index = 1]]
    /\ pc' = [pc EXCEPT ![t] = IF Chunks(a.transcript) = <<>> THEN "c_summary" ELSE "c_chunk"]
    /\ UNCHANGED <<store, hub, archive, local_id, hub_result, result, syncLocals,
                   hydrateLocals, autonomy>>

\* One round of the loop over the chunks (745-790): the chunk is skipped,
\* or scored and, at or above the threshold, handed to remember, whose
\* upload the Hub answers with reply.
CaptureChunk(t, reply) ==
    /\ pc[t] = "c_chunk"
    /\ calls' = calls
    /\ LET c == capture[t]
           chunk == c.chunks[c.index]
           chunk_lower == Lower(chunk)
           importance == ImportanceScore(chunk_lower)
           emotional_valence == EmotionalValence(chunk_lower)
           importance_int == ImportanceInt(importance)
           digest == ChunkDigest(chunk)
           remembered ==
               RememberWhole(RememberArgs(digest, "episodic", importance_int,
                                          emotional_valence, args[t].conversation_id,
                                          "claude", TRUE), reply)
           next == [c EXCEPT !.index = c.index + 1]
       IN  /\ IF TooShort(chunk)
              THEN /\ capture' = [capture EXCEPT ![t] = next]
                   /\ UNCHANGED <<store, hub>>
              ELSE IF importance < args[t].min_importance
              THEN /\ capture' = [capture EXCEPT ![t] =
                                    [next EXCEPT !.importance = importance]]
                   /\ UNCHANGED <<store, hub>>
              ELSE /\ Apply(remembered)
                   /\ capture' = [capture EXCEPT ![t] =
                         [next EXCEPT
                            !.importance = importance,
                            !.emotional_valence = emotional_valence,
                            !.captured_memories =
                                Captured(c.captured_memories, digest, importance_int,
                                         emotional_valence, remembered.result.status)]]
           /\ pc' = [pc EXCEPT ![t] =
                       IF c.index < Len(c.chunks) THEN "c_chunk" ELSE "c_summary"]
    /\ UNCHANGED <<archive, rememberLocals, result, syncLocals, hydrateLocals, autonomy>>

\* The summary engram of a transcript longer than 100 characters
\* (792-800), and the value auto_capture returns (captured_at, the wall
\* clock time, is left out).
CaptureSummary(t, reply) ==
    /\ pc[t] = "c_summary"
    /\ calls' = calls
    /\ LET transcript == args[t].transcript
           captured_memories == capture[t].captured_memories
           summary_digest ==
               "Auto-captured conversation (" \o Decimal(Len(captured_memories))
                   \o " engrams). Preview: " \o PySlice(transcript, 200) \o "..."
           remembered ==
               RememberWhole(RememberArgs(summary_digest, "episodic", 3, 0,
                                          args[t].conversation_id, "claude", TRUE), reply)
       IN  /\ IF Len(transcript) > 100
              THEN Apply(remembered)
              ELSE UNCHANGED <<store, hub>>
           /\ result' = [result EXCEPT ![t] =
                 [status |-> "captured", conversation_id |-> args[t].conversation_id,
                  engrams_created |-> Len(captured_memories),
                  memories |-> captured_memories]]
    /\ pc' = [pc EXCEPT ![t] = IF "participants" \in DOMAIN args[t]
                               THEN "e_summary" ELSE "done"]
    /\ UNCHANGED <<archive, rememberLocals, syncLocals, hydrateLocals, capture, autonomy>>

(***************************************************************************)
(* session_end  (memory_bridge.py 810-892)                                 *)
(***************************************************************************)
\* strftime('%Y%m%d_%H%M%S') of the logical instant now.
StrfTime(now) ==
    "20251225_0000"
        \o SubSeq(DecimalDigits, (now \div 10) + 1, (now \div 10) + 1)
        \o SubSeq(DecimalDigits, (now % 10) + 1, (now % 10) + 1)

\* text.replace(old, new)
Replace(text, old, new) == Join(new, Split(text, old))

\* session_end 833-849: the arguments with their defaults filled in, as
\* the record of the running call; conversation_id and min_importance are
\* what auto_capture is called with.
SessionEndArgs(transcript, session_id, title, summary, participants) ==
    LET id == IF Truthy(session_id) THEN session_id ELSE StrfTime(ref_seq + 1)
    IN  [digest |-> None, transcript |-> transcript, conversation_id |-> id,
         min_importance |-> 6,
         title |-> IF Truthy(title) THEN title ELSE "Session " \o id,
         summary |-> IF Truthy(summary) THEN summary
                     ELSE "Conversation transcript. Preview: "
                              \o Replace(PySlice(transcript, 300), "\n", " ") \o "...",
         participants |-> IF participants # <<>> THEN participants
                          ELSE <<"Claude", "Gena">>]

\* session_end up to the start of auto_capture's loop: the defaults, the
\* archive_conversation call (one transaction) and the split into chunks.
SessionEndCall(t, transcript, session_id, title, summary, participants) ==
    LET a == SessionEndArgs(transcript, session_id, title, summary, participants)
    IN  /\ pc[t] = "idle"
        /\ CountCapture
        /\ ref_seq < MaxArchives
        /\ args' = [args EXCEPT ![t] = a]
        /\ reference_conversations' =
               InsertOrReplace(reference_conversations,
                               NewConversation(ArchiveArgs(a.conversation_id, transcript,
                                                           a.title, a.summary, a.participants,
                                                           <<>>, IsoFormat(ref_seq + 1), None)))
        /\ ref_seq' = ref_seq + 1
        /\ capture' = [capture EXCEPT ![t] =
                         [NoCapture EXCEPT !.chunks = Chunks(transcript), !.index = 1]]
        /\ pc' = [pc EXCEPT ![t] = IF Chunks(transcript) = <<>> THEN "c_summary" ELSE "c_chunk"]
        /\ UNCHANGED <<store, hub, local_id, hub_result, result, syncLocals, hydrateLocals,
                       autonomy>>

\* session_end 868-892: the session summary engram is handed to remember
\* and the call returns (archived_at, the wall clock time, is left out).
SessionSummary(t, reply) ==
    /\ pc[t] = "e_summary"
    /\ calls' = calls
    /\ LET a == args[t]
           summary_engram ==
               "Session ended: " \o a.title \o ". " \o Decimal(Len(a.transcript))
                   \o " chars archived. " \o Decimal(result[t].engrams_created)
                   \o " important moments captured. Participants: "
                   \o Join(", ", a.participants) \o "."
           remembered ==
               RememberWhole(RememberArgs(summary_engram, "episodic", 3, 0,
                                          a.conversation_id, "claude", TRUE), reply)
       IN  /\ Apply(remembered)
           /\ result' = [result EXCEPT ![t] =
                 [status |-> "session_archived", session_id |-> a.conversation_id,
                  title |-> a.title,
                  archive |-> [status |-> "archived",
                               message_count |-> Count(a.transcript, "\n") + 1],
                  long_term_capture |-> [engrams_created |-> result[t].engrams_created,
                                         memories |-> result[t].memories],
                  transcript_length |-> Len(a.transcript),
                  participants |-> a.participants]]
    /\ pc' = [pc EXCEPT ![t] = "done"]
    /\ UNCHANGED <<archive, rememberLocals, syncLocals, hydrateLocals, capture, autonomy>>

(***************************************************************************)
(* The routes  (main.py 97-110, 162-179, 238-298)                          *)
(***************************************************************************)
\* A POST request: whether it carries a JSON body, and the object in it.
Request(json, fields) == [json |-> json, fields |-> fields]

\* not data or field not in data
Lacks(request, field) ==
    \/ ~request.json
    \/ DOMAIN request.fields = {}
    \/ field \notin DOMAIN request.fields

\* data.get(key, default)
Get(fields, key, default) == IF key \in DOMAIN fields THEN fields[key] ELSE default

\* The rejection with the bad request reported to the Hub.
Reject_Reported(t, request, field) ==
    /\ pc[t] = "idle"
    /\ Lacks(request, field)
    /\ result' = [result EXCEPT ![t] =
                    [status |-> None, error |-> field \o " required", code |-> 400]]
    /\ hub' = HubAccept("claude", [type |-> "error", digest |-> field \o " required"],
                        "remember", 0)
    /\ pc' = [pc EXCEPT ![t] = "done"]
    /\ UNCHANGED <<store, archive, rememberLocals, syncLocals, calls, hydrateLocals,
                   capture, autonomy>>

\* return jsonify({"error": "<field> required"}), 400
Reject(t, request, field) ==
    /\ pc[t] = "idle"
    /\ Lacks(request, field)
    /\ result' = [result EXCEPT ![t] =
                    [status |-> None, error |-> field \o " required", code |-> 400]]
    /\ pc' = [pc EXCEPT ![t] = "done"]
    /\ UNCHANGED <<store, hub, archive, rememberLocals, syncLocals, calls, hydrateLocals,
                   capture, autonomy>>

\* POST /remember
PostRemember(t, request) ==
    \/ Reject(t, request, "digest")
    \/ /\ ~Lacks(request, "digest")
       /\ RememberCall(t, RememberArgs(request.fields.digest,
                                       Get(request.fields, "type", "semantic"),
                                       Get(request.fields, "importance", 3),
                                       Get(request.fields, "emotional_valence", 0),
                                       Get(request.fields, "project", None),
                                       "claude", TRUE))

\* POST /archive
PostArchive(t, request) ==
    \/ Reject(t, request, "transcript")
    \/ /\ ~Lacks(request, "transcript")
       /\ ArchiveConversation(t,
              ArchiveArgs(Get(request.fields, "conversation_id", StrfTime(ref_seq + 1)),
                          request.fields.transcript,
                          Get(request.fields, "title", None),
                          Get(request.fields, "summary", None),
                          Get(request.fields, "participants", <<>>),
                          Get(request.fields, "tags", <<>>),
                          Get(request.fields, "started_at", None),
                          Get(request.fields, "ended_at", None)))

\* POST /auto_capture
PostAutoCapture(t, request) ==
    \/ Reject(t, request, "transcript")
    \/ /\ ~Lacks(request, "transcript")
       /\ AutoCaptureCall(t, CaptureArgs(request.fields.transcript,
                                         Get(request.fields, "conversation_id", None),
                                         Get(request.fields, "min_importance", 6)))

\* POST /session_end
PostSessionEnd(t, request) ==
    \/ Reject(t, request, "transcript")
    \/ /\ ~Lacks(request, "transcript")
       /\ SessionEndCall(t, request.fields.transcript,
                         Get(request.fields, "session_id", None),
                         Get(request.fields, "title", None),
                         Get(request.fields, "summary", None),
                         Get(request.fields, "participants", <<>>))

(***************************************************************************)
(* AutonomyModule: practice sessions  (autonomy.py 87-225)                 *)
(***************************************************************************)
\* Bound of the model: the number of practice sessions started in one run.
MaxSessions == 2

\* UPDATE practice_sessions SET ended_at = ?, status = ? WHERE id = ?
\* (_end_practice 192-196, stop_practice 215-219).
UpdateSession(id, ended_at, status) ==
    [practice_sessions EXCEPT ![id] = [@ EXCEPT !.ended_at = ended_at, !.status = status]]

\* start_practice 94-95: the test of is_practicing.  A call that finds a
\* session running returns the error; another goes on to the INSERT.
StartPractice(t) ==
    /\ pc[t] = "idle"
    /\ IF is_practicing
       THEN /\ pc' = [pc EXCEPT ![t] = "done"]
            /\ result' = [result EXCEPT ![t] = [error |-> "Already in a practice session"]]
       ELSE /\ Len(practice_sessions) + Cardinality({u \in Threads : pc[u] = "p_insert"})
                < MaxSessions
            /\ pc' = [pc EXCEPT ![t] = "p_insert"]
            /\ UNCHANGED result
    /\ UNCHANGED <<store, hub, archive, rememberLocals, syncLocals, calls, hydrateLocals,
                   capture, autonomy>>

\* start_practice 97-146: the INSERT of the session row (status 'active',
\* ended_at NULL, here 0), session_id = cursor.lastrowid, current_session,
\* is_practicing = True, and the start of the _practice_loop thread.
PracticeInsert(t) ==
    /\ pc[t] = "p_insert"
    /\ LET session_id == Len(practice_sessions) + 1
       IN  /\ practice_sessions' =
                  Append(practice_sessions,
                         [id |-> session_id, status |-> "active", ended_at |-> 0])
           /\ current_session' = session_id
           /\ is_practicing' = TRUE
           /\ practice_thread' =
                  [id \in DOMAIN practice_thread \cup {session_id} |->
                       IF id = session_id THEN "while" ELSE practice_thread[id]]
           /\ result' = [result EXCEPT ![t] =
                             [status |-> "started", session_id |-> session_id]]
    /\ pc' = [pc EXCEPT ![t] = "done"]
    /\ UNCHANGED <<store, hub, archive, rememberLocals, syncLocals, calls, hydrateLocals,
                   capture, clock>>

\* _practice_loop 158-182: one test of the while condition by the thread of
\* a session; the duration has run out or not, and is_practicing is read.
\* The thread leaves the loop or sleeps and tests again.
PracticeLoop(session_id) ==
    /\ session_id \in DOMAIN practice_thread
    /\ practice_thread[session_id] = "while"
    /\ \E expired \in BOOLEAN :
           IF ~expired /\ is_practicing
           THEN UNCHANGED practice_thread
           ELSE practice_thread' = [practice_thread EXCEPT ![session_id] = "end"]
    /\ UNCHANGED <<store, hub, archive, rememberLocals, pc, result, syncLocals, calls,
                   hydrateLocals, capture, is_practicing, current_session,
                   practice_sessions, clock>>

\* _practice_loop 184 and _end_practice 186-203: the thread that left the
\* loop writes ended_at and the status of its session, then clears
\* is_practicing and current_session.
EndPractice(session_id, status) ==
    /\ session_id \in DOMAIN practice_thread
    /\ practice_thread[session_id] = "end"
    /\ clock' = clock + 1
    /\ practice_sessions' = UpdateSession(session_id, clock', status)
    /\ is_practicing' = FALSE
    /\ current_session' = 0
    /\ practice_thread' = [practice_thread EXCEPT ![session_id] = "ended"]
    /\ UNCHANGED <<store, hub, archive, rememberLocals, pc, result, syncLocals, calls,
                   hydrateLocals, capture>>

\* stop_practice 207-213: the test of is_practicing and current_session,
\* session_id = current_session["id"], is_practicing = False.
StopPractice(t) ==
    /\ pc[t] = "idle"
    /\ IF ~is_practicing \/ current_session = 0
       THEN /\ pc' = [pc EXCEPT ![t] = "done"]
            /\ result' = [result EXCEPT ![t] = [error |-> "No active practice session"]]
            /\ UNCHANGED <<local_id, is_practicing>>
       ELSE /\ local_id' = [local_id EXCEPT ![t] = current_session]
            /\ is_practicing' = FALSE
            /\ pc' = [pc EXCEPT ![t] = "p_stop"]
            /\ UNCHANGED result
    /\ UNCHANGED <<store, hub, archive, args, hub_result, syncLocals, calls, hydrateLocals,
                   capture, current_session, practice_sessions, practice_thread, clock>>

\* stop_practice 215-225: the UPDATE that writes ended_at and status
\* 'stopped', and the report of the session read back from the table.
StopUpdate(t) ==
    /\ pc[t] = "p_stop"
    /\ clock' = clock + 1
    /\ practice_sessions' = UpdateSession(local_id[t], clock', "stopped")
    /\ result' = [result EXCEPT ![t] =
                      [session_id |-> local_id[t],
                       status |-> practice_sessions'[local_id[t]].status,
                       ended_at |-> practice_sessions'[local_id[t]].ended_at]]
    /\ pc' = [pc EXCEPT ![t] = "done"]
    /\ UNCHANGED <<store, hub, archive, rememberLocals, syncLocals, calls, hydrateLocals,
                   capture, is_practicing, current_session, practice_thread>>

(***************************************************************************)
(* Specifications                                                          *)
(***************************************************************************)
\* The arguments callers pass to remember in this model: the defaults of
\* the signature, with the body, the owner and sync_immediately varying.
RememberInputs ==
    {RememberArgs("m1", "semantic", 3, 0, None, "claude", TRUE),
     RememberArgs("m1", "semantic", 3, 0, None, "claude", FALSE),
     RememberArgs("m1", "semantic", 3, 0, None, "pascal", TRUE),
     RememberArgs("m2", "semantic", 3, 0, None, "claude", TRUE)}

\* The (agent_name, digest) pairs callers pass to remember_for; "nobody" is
\* not a constellation member.
RememberForInputs == {<<"grok", "m1">>, <<"nobody", "m1">>}

\* Every digest that reaches remember in this model.
Digests ==
    {a.digest : a \in RememberInputs}
        \cup {ProxiedDigest(i[1], i[2]) : i \in {j \in RememberForInputs : j[1] \in DOMAIN CONSTELLATION}}

\* One atomic step of thread t.
Step(t) ==
    \/ \E a \in RememberInputs : RememberCall(t, a)
    \/ \E i \in RememberForInputs : RememberForCall(t, i[1], i[2], "semantic", 3, None)
    \/ RememberInsert(t)
    \/ \E reply \in HubReplies : SyncToHub(t, reply)
    \/ QueueForSync(t)
    \/ RememberUpdate(t)
    \/ SyncPendingCall(t)
    \/ \E reply \in SyncReplies : SyncPost(t, reply)
    \/ SyncDelete(t)
    \/ Return(t)

\* Threads interleave freely between atomic steps.
Next == \E t \in Threads : Step(t)

Spec == Init /\ [][Next]_vars

\* Calls made one after the other: a thread steps only while every other
\* thread is outside a call.
SeqStep(t) == (\A u \in Threads \ {t} : pc[u] = "idle") /\ Step(t)

SeqNext == \E t \in Threads : SeqStep(t)

SeqSpec == Init /\ [][SeqNext]_vars

\* A call that has started runs on to its return.
Continue(t) == pc[t] # "idle" /\ SeqStep(t)

\* The Hub accepts an upload of sync_pending.
HubAcceptsSync == \E t \in Threads : SeqStep(t) /\ SyncPost(t, "ok")

\* The Hub accepts an upload of remember and returns its id.
HubAcceptsRemember == \E t \in Threads : SeqStep(t) /\ SyncToHub(t, "ok_id")

\* sync_pending is invoked.
SyncInvoked == \E t \in Threads : SeqStep(t) /\ SyncPendingCall(t)

\* Calls made one after the other, under the fairness the claim about
\* delivery assumes: every call runs to its end, sync_pending is invoked
\* again and again, and the Hub does not reject uploads forever.
FairSpec ==
    /\ Init /\ [][SeqNext]_vars
    /\ \A t \in Threads : WF_vars(Continue(t))
    /\ SF_vars(SyncInvoked)
    /\ SF_vars(HubAcceptsSync)
    /\ SF_vars(HubAcceptsRemember)

\* The arguments callers pass to remember in the hydration runs: bodies
\* of importance 5, 3 and 4, the last longer than a rendered line holds.
HydrateRememberInputs ==
    {RememberArgs("core", "semantic", 5, 0, None, "claude", TRUE),
     RememberArgs("note", "semantic", 3, 0, None, "claude", FALSE),
     RememberArgs(LongBody, "episodic", 4, 0, None, "claude", FALSE)}

\* The arguments callers pass to archive_conversation: a conversation, a
\* second one, a new transcript without title and summary under the id of
\* the first, and a call without id.
ArchiveInputs ==
    {ArchiveArgs("c1", "hello\nworld", "Intro", "about phoenix", <<"claude", "user">>,
                 <<"intro">>, None, None),
     ArchiveArgs("c2", "notes on phoenix", "Notes", "short notes", <<>>, <<>>,
                 "2025-11-30T10:00:00", None),
     ArchiveArgs("c1", "second", None, None, <<>>, <<>>, None, None),
     ArchiveArgs(None, "lost", None, None, <<>>, <<>>, None, None)}

\* The arguments callers pass to hydrate_context: the defaults; budgets
\* that are exactly the length of a heading with one line (41), inside the
\* first line (30), zero and negative; a query with the reference tier; the
\* reference tier alone under a small budget; the recent tier alone; and
\* the call hydrate_for_wakeup makes.
HydrateInputs ==
    {HydrateArgs(None, TRUE, TRUE, FALSE, 10, 3, 4000, FALSE),
     HydrateArgs(None, TRUE, TRUE, FALSE, 10, 3, 41, FALSE),
     HydrateArgs(None, TRUE, TRUE, FALSE, 10, 3, 30, FALSE),
     HydrateArgs(None, TRUE, FALSE, FALSE, 2, 3, 0, FALSE),
     HydrateArgs(None, TRUE, TRUE, FALSE, 10, 3, -5, FALSE),
     HydrateArgs("o", TRUE, TRUE, TRUE, 10, 3, 4000, FALSE),
     HydrateArgs("o", FALSE, FALSE, TRUE, 10, 1, 20, FALSE),
     WakeupArgs(10)}

\* One atomic step of thread t in the hydration runs: remember with its
\* upload, archive_conversation, hydrate_context and hydrate_for_wakeup.
HydrateStep(t) ==
    \/ \E a \in HydrateRememberInputs : RememberCall(t, a)
    \/ RememberInsert(t)
    \/ \E reply \in HubReplies : SyncToHub(t, reply)
    \/ QueueForSync(t)
    \/ RememberUpdate(t)
    \/ \E a \in ArchiveInputs : ArchiveConversation(t, a)
    \/ \E a \in HydrateInputs : HydrateCall(t, a)
    \/ \E reply \in RetrieveReplies : HydrateImportant(t, reply)
    \/ \E reply \in RetrieveReplies : HydrateRecent(t, reply)
    \/ HydrateReference(t)
    \/ Return(t)

\* Calls made one after the other, by any thread.
HydrateNext ==
    \E t \in Threads : (\A u \in Threads \ {t} : pc[u] = "idle") /\ HydrateStep(t)

\* remember, archive_conversation and hydrate_context, each call running
\* from its start to its return before the next call starts.
HydrateSpec == Init /\ [][HydrateNext]_vars

\* The arguments callers pass to remember in the runs of the tiers: bodies
\* of importance 5, 4, 3 and 2, two of them alike in their leading 50
\* characters.
TierRememberInputs ==
    {RememberArgs("core", "semantic", 5, 0, None, "claude", TRUE),
     RememberArgs(LongBody, "episodic", 4, 0, None, "claude", FALSE),
     RememberArgs(NearBody, "episodic", 3, 0, None, "claude", FALSE),
     RememberArgs("note", "semantic", 3, 0, None, "claude", FALSE),
     RememberArgs("trivia", "semantic", 2, 0, None, "claude", FALSE)}

\* The conversations archived in the runs of the tiers.
TierArchiveInputs ==
    {ArchiveArgs("c1", "hello\nworld", "Intro", "about phoenix", <<"claude", "user">>,
                 <<"intro">>, None, None),
     ArchiveArgs("c2", "notes on phoenix", "Notes", "short notes", <<>>, <<>>,
                 "2025-11-30T10:00:00", None)}

\* The arguments callers pass to hydrate_context in the runs of the tiers:
\* both tiers with the reference tier asked for without a query, small
\* limits, each tier alone, and a query with the reference tier.
TierInputs ==
    {HydrateArgs(None, TRUE, TRUE, TRUE, 10, 3, 4000, FALSE),
     HydrateArgs(None, TRUE, TRUE, FALSE, 2, 3, 4000, FALSE),
     HydrateArgs(None, TRUE, FALSE, FALSE, 10, 3, 4000, FALSE),
     HydrateArgs(None, FALSE, TRUE, FALSE, 1, 3, 4000, FALSE),
     HydrateArgs("o", TRUE, TRUE, TRUE, 10, 1, 4000, FALSE)}

\* One atomic step of thread t in the runs of the tiers.
TierStep(t) ==
    \/ \E a \in TierRememberInputs : RememberCall(t, a)
    \/ RememberInsert(t)
    \/ \E reply \in HubReplies : SyncToHub(t, reply)
    \/ QueueForSync(t)
    \/ RememberUpdate(t)
    \/ \E a \in TierArchiveInputs : ArchiveConversation(t, a)
    \/ \E a \in TierInputs : HydrateCall(t, a)
    \/ \E reply \in RetrieveReplies : HydrateImportant(t, reply)
    \/ \E reply \in RetrieveReplies : HydrateRecent(t, reply)
    \/ HydrateReference(t)
    \/ Return(t)

\* Calls made one after the other, by one caller.
TierNext == \E t \in {"t1"} : TierStep(t)

\* remember, archive_conversation and hydrate_context over engrams of
\* every importance, each call running to its return before the next.
TierSpec == Init /\ [][TierNext]_vars

\* A transcript longer than the 500 characters of a preview: 630.
LongTranscript == LongBody \o LongBody \o LongBody

\* The arguments callers pass to archive_conversation in the runs of the
\* archive: those of the hydration runs and a long transcript.
ReferenceInputs ==
    ArchiveInputs
        \cup {ArchiveArgs("c3", LongTranscript, "Long", None, <<"claude">>,
                          <<"big", "raw">>, None, "2025-12-01T09:00:00")}

\* The ids callers pass to get_conversation; "zz" is never archived.
ConversationIds == {"c1", "c2", "c3", "zz"}

\* The (query, limit) pairs callers pass to search_reference: a word in
\* either case, limits of one and zero, a digit of the long transcript,
\* and texts with the characters _ and %.
SearchInputs ==
    {<<"o", 5>>, <<"o", 1>>, <<"o", 0>>, <<"PHOENIX", 5>>, <<"0", 5>>,
     <<"w_r", 5>>, <<"9%0", 5>>}

\* One atomic step of thread t in the runs of the archive.
ArchiveStep(t) ==
    \/ \E a \in ReferenceInputs : ArchiveConversation(t, a)
    \/ \E id \in ConversationIds : GetConversation(t, id)
    \/ \E i \in SearchInputs : SearchArchive(t, i[1], i[2])
    \/ Return(t)

\* Calls made one after the other, by any thread.
ArchiveNext ==
    \E t \in Threads : (\A u \in Threads \ {t} : pc[u] = "idle") /\ ArchiveStep(t)

\* archive_conversation, get_conversation and search_reference, each call
\* one transaction.
ArchiveSpec == Init /\ [][ArchiveNext]_vars

\* The arguments callers pass to remember in the runs of recall: engrams
\* of two owners, with and without project, of several importances.
RecallRememberInputs ==
    {RememberArgs("m1", "semantic", 3, 0, None, "claude", TRUE),
     RememberArgs("m2", "semantic", 5, 0, "p1", "claude", FALSE),
     RememberArgs("M1 again", "episodic", 1, 0, None, "claude", FALSE),
     RememberArgs("m3", "semantic", 4, 0, "p1", "pascal", FALSE)}

\* The arguments callers pass to recall: the defaults; a text filter with
\* a limit of one; text, project and importance filters together; another
\* owner; filters given as empty texts with a limit of zero; and a text
\* filter with the character _.
RecallInputs ==
    {RecallArgs(None, None, 0, 20, "claude", FALSE),
     RecallArgs("m", None, 0, 1, "claude", FALSE),
     RecallArgs("m1", "p1", 4, 20, "claude", TRUE),
     RecallArgs("M", "p1", 4, 20, "claude", TRUE),
     RecallArgs(None, None, 0, 20, "pascal", TRUE),
     RecallArgs("", "", 3, 0, "claude", FALSE),
     RecallArgs("m_", None, 0, 20, "claude", TRUE)}

\* One atomic step of thread t in the runs of recall.
RecallStep(t) ==
    \/ \E a \in RecallRememberInputs : RememberCall(t, a)
    \/ RememberInsert(t)
    \/ \E reply \in HubReplies : SyncToHub(t, reply)
    \/ QueueForSync(t)
    \/ RememberUpdate(t)
    \/ \E a \in RecallInputs : RecallCall(t, a)
    \/ \E reply \in RetrieveReplies : RecallHub(t, reply)
    \/ RecallFallback(t)
    \/ Return(t)

\* Calls made one after the other, by any thread.
RecallNext ==
    \E t \in Threads : (\A u \in Threads \ {t} : pc[u] = "idle") /\ RecallStep(t)

\* remember and recall, each call running to its return before the next.
RecallSpec == Init /\ [][RecallNext]_vars

\* The transcripts callers pass to auto_capture: a short segment and one
\* with the keyword critical; a short segment and segments with a moderate
\* keyword, with none and a negative word, and with a high, a positive and
\* a negative keyword (119 characters in all); the same segment twice;
\* nothing; three short lines; blanks; segments of 20 and of 19
\* characters; a keyword inside a longer word; and a keyword in capitals.
ScenarioTranscript == "ok\n\nThis is a critical decision for the phoenix project"
MixedTranscript ==
    "Noted.\n\nWe deployed the new release today.\n\nThe server is broken since Monday."
        \o "\n\nMy family is wonderful and I am worried"
TwiceTranscript == "Grok said the plan works\n\nGrok said the plan works"
BlankTranscript == "  \n \n\t "
FloorTranscript == "exactly twenty chars\n\nonly nineteen chars"
MonkeyTranscript == "The monkey sat on the wall"
UpperTranscript == "CRITICAL UPDATE FOR EVERYONE"

\* The arguments callers pass to auto_capture; 6 is the default
\* min_importance of the route, 0.6.
CaptureInputs ==
    {CaptureArgs(ScenarioTranscript, "conv", 6),
     CaptureArgs(ScenarioTranscript, "conv", 10),
     CaptureArgs(MixedTranscript, "conv", 0),
     CaptureArgs(MixedTranscript, "conv", 7),
     CaptureArgs(MixedTranscript, "c2", 7),
     CaptureArgs("", "conv", 6),
     CaptureArgs("short\nlines\nonly", "conv", 0),
     CaptureArgs(TwiceTranscript, "conv", 6),
     CaptureArgs(BlankTranscript, "conv", 6),
     CaptureArgs(FloorTranscript, "conv", 0),
     CaptureArgs(MonkeyTranscript, "c2", 6),
     CaptureArgs(UpperTranscript, "c2", 9)}

\* What the Hub answers to the uploads in the runs of auto_capture.
CaptureReplies == {"ok_id", "fail"}

\* One atomic step of thread t in the runs of auto_capture.
CaptureStep(t) ==
    \/ \E a \in CaptureInputs : AutoCaptureCall(t, a)
    \/ \E reply \in CaptureReplies : CaptureChunk(t, reply)
    \/ \E reply \in CaptureReplies : CaptureSummary(t, reply)
    \/ Return(t)

\* Calls made one after the other by one caller.
CaptureNext == \E t \in {"t1"} : CaptureStep(t)

\* auto_capture, each round of its loop one step.
CaptureSpec == Init /\ [][CaptureNext]_vars

\* The requests sent to the four POST routes, each list ending with
\* requests that lack the required field: another field only, an empty
\* object, no JSON body. The sessions: one, a second transcript under the
\* same session_id, a transcript under another session_id that shares a
\* segment with it, and one without session_id.
RememberRequests ==
    <<Request(TRUE, [digest |-> "m1"]),
      Request(TRUE, [type |-> "episodic"]),
      Request(TRUE, <<>>),
      Request(FALSE, <<>>)>>

ArchiveRequests ==
    <<Request(TRUE, [transcript |-> "hello\nworld", conversation_id |-> "s1"]),
      Request(TRUE, [transcript |-> "notes"]),
      Request(TRUE, [conversation_id |-> "s1", title |-> "Intro"]),
      Request(FALSE, <<>>)>>

CaptureRequests ==
    <<Request(TRUE, [transcript |-> ScenarioTranscript, conversation_id |-> "conv"]),
      Request(TRUE, [conversation_id |-> "conv", min_importance |-> 0]),
      Request(TRUE, <<>>)>>

SessionRequests ==
    <<Request(TRUE, [transcript |-> ScenarioTranscript, session_id |-> "s1"]),
      Request(TRUE, [transcript |-> "Grok said the plan works", session_id |-> "s1",
                     title |-> "Plan", participants |-> <<"Claude">>]),
      Request(TRUE, [transcript |-> "Grok said the plan works\n\n"
                                       \o "This is a critical decision for the phoenix project",
                     session_id |-> "s2"]),
      Request(TRUE, [transcript |-> "notes"]),
      Request(TRUE, [session_id |-> "s1", title |-> "Plan"]),
      Request(FALSE, <<>>)>>

\* One atomic step of thread t in the runs of the routes.
SessionStep(t) ==
    \/ \E i \in DOMAIN RememberRequests : PostRemember(t, RememberRequests[i])
    \/ \E i \in DOMAIN ArchiveRequests : PostArchive(t, ArchiveRequests[i])
    \/ \E i \in DOMAIN CaptureRequests : PostAutoCapture(t, CaptureRequests[i])
    \/ \E i \in DOMAIN SessionRequests : PostSessionEnd(t, SessionRequests[i])
    \/ RememberInsert(t)
    \/ \E reply \in HubReplies : SyncToHub(t, reply)
    \/ QueueForSync(t)
    \/ RememberUpdate(t)
    \/ \E reply \in CaptureReplies : CaptureChunk(t, reply)
    \/ \E reply \in CaptureReplies : CaptureSummary(t, reply)
    \/ \E reply \in CaptureReplies : SessionSummary(t, reply)
    \/ Return(t)

\* Requests handled one after the other.
SessionNext == \E t \in {"t1"} : SessionStep(t)

\* The POST routes remember, archive, auto_capture and session_end.
SessionSpec == Init /\ [][SessionNext]_vars

\* One atomic step of a caller of the AutonomyModule.
PracticeStep(t) ==
    \/ StartPractice(t)
    \/ PracticeInsert(t)
    \/ StopPractice(t)
    \/ StopUpdate(t)
    \/ Return(t)

\* Callers and the loop threads of the sessions, interleaved freely.
PracticeNext ==
    \/ \E t \in Threads : PracticeStep(t)
    \/ \E session_id \in 1..MaxSessions : PracticeLoop(session_id)
    \/ \E session_id \in 1..MaxSessions : EndPractice(session_id, "completed")

\* start_practice, stop_practice and the practice loops.
PracticeSpec == Init /\ [][PracticeNext]_vars

(***************************************************************************)
(* Properties                                                              *)
(***************************************************************************)
\* Thread t is at the return of a remember call (not of remember_for's
\* unknown-agent error, not of sync_pending).
RememberDone(t) ==
    pc[t] = "done" /\ result[t].status \in {"stored_locally", "duplicate"}

\* Thread t is at the return of a sync_pending call.
SyncDone(t) == pc[t] = "done" /\ result[t].status = "sync_done"

\* The rows of a queue table that carry the engram of this owner and body.
EntriesIn(rows, agent_id, digest) ==
    {i \in 1..Len(rows) : rows[i].agent_id = agent_id /\ rows[i].engram_data.digest = digest}

\* The queue rows that carry the engram of this owner and body.
EntriesFor(agent_id, digest) == EntriesIn(sync_queue, agent_id, digest)

\* The ids of the rows of a queue table or snapshot.
Ids(rows) == {rows[i].id : i \in 1..Len(rows)}

\* The uploads of queue row qid the Hub accepted.
Deliveries(qid) == {h \in BagToSet(hub) : h.via = "sync" /\ h.qid = qid}

\* C1: the store never holds two engrams with the same owner and the same
\* fingerprint; whenever a remember call of body b for owner o returns
\* (stored_locally the first time, duplicate afterwards), the store holds b
\* for o, and the local query for o returns b exactly once.
C1_DedupPerOwner ==
    /\ \A i, j \in 1..Len(engrams) :
          (engrams[i].agent_id = engrams[j].agent_id
              /\ engrams[i].content_hash = engrams[j].content_hash) => i = j
    /\ \A t \in Threads :
          RememberDone(t) =>
              LET rows == RecallLocal(None, None, 0, 20, args[t].for_agent)
              IN  Cardinality({i \in 1..Len(rows) : rows[i].digest = args[t].digest}) = 1

\* The engram row thread t inserted in its running remember call.
OwnEngram(t) == engrams[local_id[t]]

\* Thread t runs a remember call whose Hub upload failed.
UploadFailed(t) == hub_result[t].kind = "error"

\* C2, state part: after a failed upload the call goes on to queue the
\* engram and returns stored_locally with synced = false; the engram stays
\* unsynced without hub_id, the Hub holds no upload of it by remember, and
\* its queue entry exists from the return on until sync_pending delivers it.
C2_FailedUploadState ==
    \A t \in Threads :
        UploadFailed(t) =>
            /\ pc[t] \in {"r_queue", "done"}
            /\ ~OwnEngram(t).synced /\ OwnEngram(t).hub_id = NoHubId
            /\ \A h \in BagToSet(hub) :
                  h.via = "remember" => h.engram.digest # OwnEngram(t).digest
            /\ pc[t] = "done" =>
                  /\ result[t].status = "stored_locally" /\ result[t].synced = FALSE
                  /\ \/ EntriesFor(OwnEngram(t).agent_id, OwnEngram(t).digest) # {}
                     \/ \E h \in BagToSet(hub) :
                           h.via = "sync" /\ h.engram.digest = OwnEngram(t).digest

\* C2, step part: the return of such a call adds exactly one queue row, a
\* new one, carrying the owner and the payload of the engram.
C2_FailedUploadStep ==
    \A t \in Threads :
        (UploadFailed(t) /\ pc[t] = "r_queue" /\ pc'[t] = "done") =>
            /\ Len(sync_queue') = Len(sync_queue) + 1
            /\ SubSeq(sync_queue', 1, Len(sync_queue)) = sync_queue
            /\ LET row == sync_queue'[Len(sync_queue')]
                   e == OwnEngram(t)
               IN  /\ row.id \notin Ids(sync_queue)
                   /\ row.agent_id = e.agent_id
                   /\ row.engram_data.digest = e.digest
                   /\ row.engram_data.type = e.type
                   /\ row.engram_data.importance = e.importance
                   /\ row.engram_data.emotional_valence = e.emotional_valence

\* C2: when the upload made by remember fails, remember still returns
\* stored_locally with synced = false, the engram stays stored, unsynced and
\* without hub_id, and exactly one queue entry with its owner and payload
\* is added.
C2_FailedUploadIsQueued == []C2_FailedUploadState /\ [][C2_FailedUploadStep]_vars

\* A remember call has returned after its upload failed; its entry is queued.
C2_Witness ==
    \E t \in Threads :
        /\ pc[t] = "done" /\ UploadFailed(t)
        /\ Cardinality(EntriesFor(args[t].for_agent, args[t].digest)) = 1

\* The ids of the queue rows ever created for the engram of this owner and
\* body: those still queued and those sync_pending delivered.
IssuedFor(agent_id, digest) ==
    {sync_queue[i].id : i \in EntriesFor(agent_id, digest)}
        \cup {h.qid : h \in {g \in BagToSet(hub) :
                               g.via = "sync" /\ g.agent_id = agent_id /\ g.engram.digest = digest}}

\* C3, state part: an engram never has more than one queue entry, at any
\* time and over time, and an entry is in the queue until the Hub has
\* accepted its upload by sync_pending.
C3_OneEntryState ==
    /\ \A i \in 1..Len(engrams) :
          Cardinality(IssuedFor(engrams[i].agent_id, engrams[i].digest)) <= 1
    /\ \A i, j \in 1..Len(sync_queue) : sync_queue[i].id = sync_queue[j].id => i = j
    /\ \A q \in 1..queue_seq : q \in Ids(sync_queue) \/ Deliveries(q) # {}

\* C3, step part: an entry that has been removed is never in the queue
\* again, and a sync_pending call that starts after the removal does not
\* read it.
C3_OneEntryStep ==
    \A q \in 1..queue_seq :
        q \notin Ids(sync_queue) =>
            /\ q \notin Ids(sync_queue')
            /\ \A t \in Threads :
                  (pc[t] = "idle" /\ pc'[t] = "s_post") => q \notin Ids(pending'[t])

\* C3: an engram whose upload failed has exactly one queue entry until a
\* sync_pending call uploads it; that call removes it once and no later
\* sync_pending call finds it again.
C3_QueuedOnceRemovedOnce == []C3_OneEntryState /\ [][C3_OneEntryStep]_vars

\* An entry was delivered and removed, and a later sync_pending call has
\* found the queue empty.
C3_Witness ==
    \E t \in Threads :
        /\ SyncDone(t) /\ pending[t] = <<>>
        /\ queue_seq >= 1 /\ sync_queue = <<>> /\ Deliveries(1) # {}

\* C4: (calls made one after the other) at the return of sync_pending: if
\* nothing was synced the queue is exactly the queue the call read; the
\* queue never holds two entries for one engram; and a call whose uploads
\* all succeeded reports every entry it read as synced, none as failed,
\* and leaves none of them behind.
C4_FailedSyncKeepsQueue ==
    /\ \A i, j \in 1..Len(sync_queue) :
          (sync_queue[i].agent_id = sync_queue[j].agent_id
              /\ sync_queue[i].engram_data.digest = sync_queue[j].engram_data.digest) => i = j
    /\ \A t \in Threads :
          SyncDone(t) =>
              /\ result[t].synced = 0 => sync_queue = pending[t]
              /\ (\A i \in 1..Len(pending[t]) : Deliveries(pending[t][i].id) # {}) =>
                    /\ result[t].synced = Len(pending[t])
                    /\ result[t].failed = 0
                    /\ sync_queue = <<>>

\* A sync_pending call has returned with every upload failed.
C4_Witness ==
    \E t \in Threads :
        /\ SyncDone(t) /\ result[t].synced = 0
        /\ result[t].failed = Len(pending[t]) /\ Len(pending[t]) >= 1

\* C5, step part: a row appears in the queue only in the step in which a
\* remember call whose upload failed queues its engram, and a row
\* disappears only in the DELETE step of a sync_pending call that handles
\* this very row after the Hub accepted its upload.
C5_QueueStep ==
    /\ \A i \in 1..Len(sync_queue') :
          sync_queue'[i].id \notin Ids(sync_queue) =>
              \E t \in Threads :
                  /\ pc[t] = "r_queue" /\ pc'[t] = "done" /\ UploadFailed(t)
                  /\ sync_queue'[i].agent_id = args[t].for_agent
                  /\ sync_queue'[i].engram_data.digest = args[t].digest
    /\ \A i \in 1..Len(sync_queue) :
          sync_queue[i].id \notin Ids(sync_queue') =>
              \E t \in Threads :
                  /\ pc[t] = "s_delete" /\ pc'[t] # "s_delete"
                  /\ CurrentRow(t).id = sync_queue[i].id
                  /\ \E h \in Deliveries(sync_queue[i].id) :
                        h.agent_id = sync_queue[i].agent_id
                            /\ h.engram = sync_queue[i].engram_data

\* C5, state part: every entry ever created is still queued or was
\* delivered.
C5_QueueState == \A q \in 1..queue_seq : q \in Ids(sync_queue) \/ Deliveries(q) # {}

\* C5: queue entries are created only by a failed upload attempt and
\* deleted only by sync_pending after the Hub accepted that entry's
\* upload; none is dropped while undelivered.
C5_CreatedOnFailureDeletedOnDelivery == []C5_QueueState /\ [][C5_QueueStep]_vars

\* Of two entries the first was delivered and removed, the second is
\* undelivered and still queued.
C5_Witness ==
    /\ queue_seq >= 2
    /\ 1 \notin Ids(sync_queue) /\ Deliveries(1) # {}
    /\ 2 \in Ids(sync_queue) /\ Deliveries(2) = {}

\* Thread t returns from a remember call that stored a new engram and was
\* asked to sync it (the step into "done" after the upload attempt).
ReturnsFromPush(t) ==
    pc[t] \in {"r_post", "r_queue", "r_update"} /\ pc'[t] = "done"

\* C6, step part: at the return of a remember call that pushed a new
\* engram, the engram is synced with the id the Hub returned and has no
\* queue entry, or it is unsynced and has exactly one queue entry.
C6_PushStep ==
    \A t \in Threads :
        ReturnsFromPush(t) =>
            LET e == engrams'[local_id[t]]
                queued == Cardinality(EntriesIn(sync_queue', e.agent_id, e.digest))
            IN  \/ e.synced /\ e.hub_id # NoHubId /\ e.hub_id = hub_result'[t].id /\ queued = 0
                \/ ~e.synced /\ e.hub_id = NoHubId /\ queued = 1

\* C6: after every remember(sync_immediately = true) that stores a new
\* engram exactly one push outcome holds, confirmed or queued, whatever
\* the Hub replies.
C6_ConfirmedOrQueued == [][C6_PushStep]_vars

\* The Hub holds an upload of this body.
Uploaded(digest) == \E h \in BagToSet(hub) : h.engram.digest = digest

\* The local store holds an engram with this body.
Stored(digest) == \E i \in 1..Len(engrams) : engrams[i].digest = digest

\* C7: every engram stored locally is eventually uploaded to the Hub,
\* whichever way it was stored and whatever earlier uploads returned.
C7_EventuallyUploaded == \A d \in Digests : Stored(d) ~> Uploaded(d)

\* C8, state part: the Hub accepted the upload of each queue entry at most
\* once.
C8_DeliveredOnce ==
    \A h \in BagToSet(hub) : h.via = "sync" => CopiesIn(h, hub) <= 1

\* C8, step part: sync_pending uploads a row only while the row is still
\* in the queue.
C8_UploadStep ==
    \A t \in Threads :
        (pc[t] = "s_post" /\ (pc'[t] # pc[t] \/ cursor'[t] # cursor[t] \/ failed'[t] # failed[t])) =>
            CurrentRow(t).id \in Ids(sync_queue)

\* C8: with sync_pending running concurrently with sync_pending or
\* remember, no entry is uploaded after it was removed from the queue, and
\* each entry is delivered at most once.
C8_NoDoubleDelivery == []C8_DeliveredOnce /\ [][C8_UploadStep]_vars

\* Thread t takes a step of its sync_pending loop.
SyncStep(t) ==
    /\ pc[t] \in {"s_post", "s_delete"}
    /\ pc'[t] # pc[t] \/ cursor'[t] # cursor[t] \/ failed'[t] # failed[t]

\* C9, step part: a step of a sync_pending call removes no row but the one
\* it is handling, a row of the snapshot it read at its start, and that
\* only in the DELETE step, which only an accepted upload leads to.
C9_DeleteStep ==
    \A t \in Threads :
        SyncStep(t) =>
            \A i \in 1..Len(sync_queue) :
                sync_queue[i].id \notin Ids(sync_queue') =>
                    /\ pc[t] = "s_delete"
                    /\ sync_queue[i].id = CurrentRow(t).id
                    /\ sync_queue[i].id \in Ids(pending[t])
                    /\ Deliveries(sync_queue[i].id) # {}

\* The entry of remember thread u was queued after sync_pending thread t
\* read its snapshot: it is not in the snapshot although no sync_pending
\* call has delivered it.
QueuedBehind(u, t) ==
    /\ pc[u] = "done" /\ UploadFailed(u)
    /\ \A q \in IssuedFor(args[u].for_agent, args[u].digest) :
          q \notin Ids(pending[t]) /\ Deliveries(q) = {}

\* C9, state part: when a sync_pending call and a failing remember that
\* queued its entry during that call have both finished, the entry is in
\* the queue.
C9_BothFinishedState ==
    \A t, u \in Threads :
        (SyncDone(t) /\ pending[t] # <<>> /\ QueuedBehind(u, t)) =>
            Cardinality(EntriesFor(args[u].for_agent, args[u].digest)) = 1

\* C9: an entry queued by a failing remember while sync_pending is in
\* progress is not lost; sync_pending deletes only entries it read at its
\* start and whose upload it saw succeed.
C9_ConcurrentEnqueueKept == []C9_BothFinishedState /\ [][C9_DeleteStep]_vars

\* A sync_pending call that read a non-empty queue has finished, and so has
\* a failing remember whose entry was queued after that read: the entry is
\* still queued.
C9_Witness ==
    \E t, u \in Threads :
        /\ SyncDone(t) /\ pending[t] # <<>> /\ QueuedBehind(u, t)
        /\ EntriesFor(args[u].for_agent, args[u].digest) # {}

\* C10: when two remember calls with the same body and the same owner
\* overlap, they do not both return stored_locally, the store then holds
\* exactly one engram with that owner and body, and the call that returned
\* duplicate made no upload attempt and queued nothing.
C10_ConcurrentSameBody ==
    \A t, u \in Threads :
        (t # u /\ RememberDone(t) /\ RememberDone(u)
             /\ args[t].for_agent = args[u].for_agent /\ args[t].digest = args[u].digest) =>
            /\ ~(result[t].status = "stored_locally" /\ result[u].status = "stored_locally")
            /\ Cardinality({i \in 1..Len(engrams) :
                               engrams[i].agent_id = args[t].for_agent
                                   /\ engrams[i].digest = args[t].digest}) = 1
            /\ result[t].status = "duplicate" =>
                  hub_result[t] = NoHubResult /\ local_id[t] = 0

\* The fingerprint of the body thread t passed to remember is in the store.
FingerprintStored(t) == IntegrityError(ContentHash(args[t].digest))

\* The persistent tables and the Hub are the same before and after the step.
NothingStoredOrSent == UNCHANGED <<engrams, sync_queue, queue_seq, hub>>

\* C11, state part: a call that got "duplicate" is at its return, has made
\* no upload attempt and inserted no row, and its fingerprint is stored.
C11_DuplicateState ==
    \A t \in Threads :
        result[t].status = "duplicate" =>
            /\ pc[t] = "done"
            /\ hub_result[t] = NoHubResult /\ local_id[t] = 0
            /\ FingerprintStored(t)

\* C11, step part: the INSERT of a body whose fingerprint is stored ends
\* the call with "duplicate", sync_immediately or not, and neither it nor
\* the return changes a table or reaches the Hub; a stored fingerprint
\* stays stored, so the next call with this body gets the same answer.
C11_DuplicateStep ==
    /\ \A t \in Threads :
          /\ (pc[t] = "r_insert" /\ FingerprintStored(t) /\ pc'[t] # "r_insert") =>
                /\ pc'[t] = "done" /\ result'[t].status = "duplicate"
                /\ hub_result'[t] = NoHubResult
                /\ NothingStoredOrSent
          /\ (pc[t] = "done" /\ result[t].status = "duplicate" /\ pc'[t] # "done") =>
                pc'[t] = "idle" /\ NothingStoredOrSent
    /\ \A d \in Digests :
          IntegrityError(ContentHash(d)) => IntegrityError(ContentHash(d))'

\* C11: a remember call whose body's fingerprint is already stored returns
\* "duplicate" and changes nothing: no engram inserted or modified, no queue
\* entry added, no upload attempted, even with sync_immediately = true, and
\* repeating it gives the same result and the same state.
C11_DuplicateChangesNothing == []C11_DuplicateState /\ [][C11_DuplicateStep]_vars

\* Two calls with sync_immediately = true have both returned "duplicate"
\* for the same stored body.
C11_Witness ==
    \E t, u \in Threads :
        /\ t # u /\ pc[t] = "done" /\ pc[u] = "done"
        /\ result[t].status = "duplicate" /\ result[u].status = "duplicate"
        /\ args[t].digest = args[u].digest
        /\ args[t].sync_immediately /\ args[u].sync_immediately

\* The store holds this body for this owner.
StoredFor(agent_id, digest) ==
    \E e \in Range(engrams) : e.agent_id = agent_id /\ e.digest = digest

\* C12, step part: the INSERT of a body that is stored for another owner
\* but not for the owner of the call adds an engram of that owner and the
\* call goes on with "stored_locally".
C12_OtherOwnerStep ==
    \A t \in Threads :
        (/\ pc[t] = "r_insert" /\ pc'[t] # "r_insert"
         /\ \E e \in Range(engrams) : e.agent_id # args[t].for_agent /\ e.digest = args[t].digest
         /\ ~StoredFor(args[t].for_agent, args[t].digest)) =>
            /\ result'[t].status = "stored_locally"
            /\ Len(engrams') = Len(engrams) + 1
            /\ engrams'[Len(engrams')].agent_id = args[t].for_agent
            /\ engrams'[Len(engrams')].digest = args[t].digest

\* C12: fingerprint uniqueness is per owner: a body stored for owner A and
\* not for owner B is stored for B by remember, which returns
\* "stored_locally" and not "duplicate".
C12_UniquePerOwner == [][C12_OtherOwnerStep]_vars

\* C13: in every reachable state every stored engram has a hub_id if and
\* only if its synced flag is true.
C13_HubIdIffSynced ==
    \A i \in 1..Len(engrams) : (engrams[i].hub_id # NoHubId) <=> engrams[i].synced

\* The store holds an engram that remember marked synced, with the id the
\* Hub gave, and an unsynced one without hub_id that sync_pending delivered.
C13_Witness ==
    \E i, j \in 1..Len(engrams) :
        /\ engrams[i].synced /\ engrams[i].hub_id # NoHubId
        /\ ~engrams[j].synced /\ engrams[j].hub_id = NoHubId
        /\ \E h \in BagToSet(hub) : h.via = "sync" /\ h.engram.digest = engrams[j].digest

\* C14, step part: no step removes an engram or changes its id, owner,
\* kind, body, importance, valence, project, created_at or fingerprint; a
\* synced engram stays synced and a hub_id that is set stays as it is.
C14_ImmutableStep ==
    /\ Len(engrams') >= Len(engrams)
    /\ \A i \in 1..Len(engrams) :
          LET e == engrams[i]
              n == engrams'[i]
          IN  /\ n.id = e.id /\ n.agent_id = e.agent_id /\ n.type = e.type
              /\ n.digest = e.digest /\ n.importance = e.importance
              /\ n.emotional_valence = e.emotional_valence /\ n.project = e.project
              /\ n.created_at = e.created_at /\ n.content_hash = e.content_hash
              /\ e.synced => n.synced
              /\ e.hub_id # NoHubId => n.hub_id = e.hub_id

\* C14: a stored engram is never deleted and never changed, except that
\* its synced flag goes from false to true at most once and its hub_id is
\* set at most once.
C14_EngramsImmutable == [][C14_ImmutableStep]_vars

\* Two engrams were marked synced one after the other and keep the
\* different ids the Hub gave them.
C14_Witness ==
    \E i, j \in 1..Len(engrams) :
        /\ i < j /\ engrams[i].synced /\ engrams[j].synced
        /\ engrams[i].hub_id # NoHubId /\ engrams[j].hub_id # NoHubId
        /\ engrams[i].hub_id # engrams[j].hub_id

\* The store holds this body for this owner marked synced.
SyncedFor(agent_id, digest) ==
    \E e \in Range(engrams) : e.agent_id = agent_id /\ e.digest = digest /\ e.synced

\* C15, state part: no queue entry carries an engram that is marked synced.
C15_NoEntryForSynced ==
    \A i \in 1..Len(sync_queue) :
        ~SyncedFor(sync_queue[i].agent_id, sync_queue[i].engram_data.digest)

\* C15, step part: the upload remember makes and the upload sync_pending
\* makes for the row it is at are never of an engram marked synced.
C15_UploadStep ==
    \A t \in Threads :
        /\ (pc[t] = "r_post" /\ pc'[t] # "r_post") =>
              ~SyncedFor(args[t].for_agent, args[t].digest)
        /\ (pc[t] = "s_post" /\ SyncStep(t)) =>
              ~SyncedFor(CurrentRow(t).agent_id, CurrentRow(t).engram_data.digest)

\* C15: an engram marked synced locally is never uploaded again: it has no
\* queue entry, and neither remember nor sync_pending uploads it.
C15_SyncedNeverReuploaded == []C15_NoEntryForSynced /\ [][C15_UploadStep]_vars

\* An engram is marked synced, a second remember of its body has returned
\* "duplicate", and sync_pending has delivered another engram.
C15_Witness ==
    \E i \in 1..Len(engrams) :
        /\ engrams[i].synced
        /\ \E t \in Threads :
              /\ pc[t] = "done" /\ result[t].status = "duplicate"
              /\ args[t].digest = engrams[i].digest
        /\ \E h \in BagToSet(hub) : h.via = "sync" /\ h.engram.digest # engrams[i].digest

\* C16: the engram of every queue entry that sync_pending uploaded and
\* removed is marked synced and has a hub_id; so once the queue is drained
\* no engram delivered by sync_pending is left with synced = false.
C16_DrainMarksSynced ==
    \A h \in BagToSet(hub) :
        (h.via = "sync" /\ h.qid \notin Ids(sync_queue)) =>
            \A e \in Range(engrams) :
                (e.agent_id = h.agent_id /\ e.digest = h.engram.digest) =>
                    e.synced /\ e.hub_id # NoHubId

\* Thread t is at the return of a hydrate_context call that returned its
\* dictionary.
HydrateDone(t) == pc[t] = "done" /\ result[t].status = "hydrated"

\* Thread t runs hydrate_context or hydrate_for_wakeup.
Hydrating(t) ==
    \/ pc[t] \in {"h_important", "h_recent", "h_refs"}
    \/ pc[t] = "done" /\ result[t].status \in {"hydrated", "wakeup", "TypeError"}

\* text ends with suffix.
EndsWith(text, suffix) ==
    /\ Len(text) >= Len(suffix)
    /\ SubSeq(text, Len(text) - Len(suffix) + 1, Len(text)) = suffix

\* The text hydrate_context composed before it looked at the budget, at
\* the return of the call of thread t.
Composed(t) ==
    Join("\n", ContextParts(important[t], recent_unique[t],
                            IF args[t].include_reference /\ Truthy(args[t].query)
                            THEN SearchReference(args[t].query, args[t].reference_limit)
                            ELSE <<>>))

\* C17: the context hydrate_context returns, truncation marker included,
\* is at most max_chars characters long (for every budget that is not
\* negative), and so is the character_count it reports; the context
\* hydrate_for_wakeup returns is within its budget of 3000 characters.
C17_WithinBudget ==
    \A t \in Threads :
        /\ (HydrateDone(t) /\ args[t].max_chars >= 0) =>
              /\ Len(result[t].context) <= args[t].max_chars
              /\ result[t].character_count <= args[t].max_chars
        /\ (pc[t] = "done" /\ result[t].status = "wakeup") =>
              Len(result[t].context) <= 3000

\* C18: at the return of hydrate_context, when the composed text is longer
\* than max_chars the context is a prefix of it (its first max_chars
\* characters; a proper prefix unless the text is empty, which only a
\* negative budget cuts) followed by the truncation marker; when it is not
\* longer, the context is the composed text itself, nothing appended.
C18_TruncatedIffTooLong ==
    \A t \in Threads :
        HydrateDone(t) =>
            LET full == Composed(t)
                context == result[t].context
                kept == Len(context) - Len(TruncationMarker)
            IN  IF Len(full) > args[t].max_chars
                THEN /\ EndsWith(context, TruncationMarker)
                     /\ kept < Len(full) \/ (full = "" /\ kept = 0)
                     /\ SubSeq(context, 1, kept) = SubSeq(full, 1, kept)
                     /\ args[t].max_chars >= 0 => kept = args[t].max_chars
                ELSE context = full

\* A call has returned a context cut at its budget of 30 characters, and
\* it ends with the marker.
C18_Witness ==
    \E t \in Threads :
        /\ HydrateDone(t) /\ args[t].max_chars = 30
        /\ Len(Composed(t)) > 30
        /\ EndsWith(result[t].context, TruncationMarker)

\* The index of the first line break of text, 0 when it has none.
FirstBreak(text) ==
    IF \E i \in 1..Len(text) : SubSeq(text, i, i) = "\n"
    THEN CHOOSE i \in 1..Len(text) :
            /\ SubSeq(text, i, i) = "\n"
            /\ \A j \in 1..(i - 1) : SubSeq(text, j, j) # "\n"
    ELSE 0

RECURSIVE Lines(_)
\* The lines of a text.
Lines(text) ==
    IF FirstBreak(text) = 0 THEN <<text>>
    ELSE <<SubSeq(text, 1, FirstBreak(text) - 1)>>
             \o Lines(SubSeq(text, FirstBreak(text) + 1, Len(text)))

\* The number of memory items in a context: the item lines (those that
\* begin with "- [", whole or cut) above the heading of the reference tier.
ItemsPresent(context) ==
    LET lines == Lines(context)
        IsRefHeading(i) == lines[i] = "## Relevant Past Conversations"
        limit == IF \E i \in 1..Len(lines) : IsRefHeading(i)
                 THEN CHOOSE i \in 1..Len(lines) : IsRefHeading(i)
                 ELSE Len(lines) + 1
    IN  Cardinality({i \in 1..(limit - 1) :
                        Len(lines[i]) >= 3 /\ SubSeq(lines[i], 1, 3) = "- ["})

\* C19: at the return of hydrate_context, memories_included is the number
\* of memory items present in the returned context, truncated or not, and
\* character_count is the length of the returned context.
C19_CountsWhatIsReturned ==
    \A t \in Threads :
        HydrateDone(t) =>
            /\ result[t].memories_included = ItemsPresent(result[t].context)
            /\ result[t].character_count = Len(result[t].context)

\* C20, step part: no step of a hydrate_context or hydrate_for_wakeup
\* call, from its start to its return and whatever the Hub answered,
\* changes the engrams, the sync queue or the reference archive.
C20_HydrateStep ==
    \A t \in Threads :
        (Hydrating(t) \/ Hydrating(t)') =>
            UNCHANGED <<engrams, sync_queue, queue_seq, reference_conversations, ref_seq>>

\* C20: hydrate_context and hydrate_for_wakeup change no persistent state.
C20_HydrateChangesNothing == [][C20_HydrateStep]_vars

\* A hydrate_context call has returned over a store that holds engrams and
\* archived conversations, its important tier taken from the Hub's answer.
C20_Witness ==
    \E t \in Threads :
        /\ HydrateDone(t)
        /\ engrams # <<>> /\ reference_conversations # <<>>
        /\ important[t] # <<>> /\ important[t][1].created_at = 0

\* Thread t is at the return of a hydrate_context call whose context was
\* returned whole, without the truncation marker.
HydrateWhole(t) == HydrateDone(t) /\ ~EndsWith(result[t].context, TruncationMarker)

\* A line of a context that renders an item.
IsItem(line) == Len(line) >= 3 /\ SubSeq(line, 1, 3) = "- ["

RECURSIVE ItemRun(_, _)
\* The item lines of lines from line i on, up to the first other line.
ItemRun(lines, i) ==
    IF i > Len(lines) \/ ~IsItem(lines[i]) THEN <<>>
    ELSE <<lines[i]>> \o ItemRun(lines, i + 1)

\* A context has the line of this heading.
HasHeading(context, heading) ==
    \E i \in 1..Len(Lines(context)) : Lines(context)[i] = heading

\* The item lines a context shows under a heading.
Section(context, heading) ==
    LET lines == Lines(context)
    IN  IF \E i \in 1..Len(lines) : lines[i] = heading
        THEN ItemRun(lines, (CHOOSE i \in 1..Len(lines) : lines[i] = heading) + 1)
        ELSE <<>>

\* The body an item line shows after its date, "- [YYYY-MM-DD] ".
RenderedBody(line) == SubSeq(line, 16, Len(line))

ImportantHeading == "## Important Memories"
RecentHeading == "## Recent Memories"
ReferenceHeading == "## Relevant Past Conversations"

\* C21: at the return of hydrate_context with both tiers enabled, no item
\* of the recent tier has the leading 50 characters of its body in common
\* with an item of the important tier, in the lists the call built and in
\* the lines of the context it returns; so no engram is under both headings.
C21_NoItemUnderBothHeadings ==
    \A t \in Threads :
        (HydrateDone(t) /\ args[t].include_important /\ args[t].include_recent) =>
            /\ \A i \in 1..Len(recent_unique[t]) : \A j \in 1..Len(important[t]) :
                  PySlice(recent_unique[t][i].digest, 50) # PySlice(important[t][j].digest, 50)
            /\ HydrateWhole(t) =>
                  \A r \in Range(Section(result[t].context, RecentHeading)) :
                      \A m \in Range(Section(result[t].context, ImportantHeading)) :
                          PySlice(RenderedBody(r), 50) # PySlice(RenderedBody(m), 50)

\* A call with both tiers has returned: the important tier shows LongBody,
\* the store holds NearBody, which is like it in its leading 50 characters
\* and important enough for the recent tier, and the recent tier shows
\* another engram.
C21_Witness ==
    \E t \in Threads :
        /\ HydrateWhole(t) /\ args[t].include_important /\ args[t].include_recent
        /\ \E j \in 1..Len(important[t]) : important[t][j].digest = LongBody
        /\ \E e \in Range(engrams) : e.digest = NearBody /\ e.importance >= 3
        /\ Section(result[t].context, RecentHeading) # <<>>

\* rows are in the order newest first.
NewestFirst(rows) ==
    \A i, j \in 1..Len(rows) : i < j => rows[i].created_at >= rows[j].created_at

\* Every line shows the body of a stored engram of at least this importance.
ShowEngramsOf(lines, min_importance) ==
    \A i \in 1..Len(lines) :
        \E e \in Range(engrams) :
            e.importance >= min_importance /\ RenderedBody(lines[i]) = PySlice(e.digest, 200)

HeldUnder(rows, conversation_id) ==
    SelectSeq(rows, LAMBDA r : r.conversation_id = conversation_id)

\* The rows of an archive table that hold another conversation_id.
HeldUnderOthers(rows, conversation_id) ==
    SelectSeq(rows, LAMBDA r : r.conversation_id # conversation_id)

\* The list a stored JSON column stands for.
StoredList(column) == IF column = None THEN <<>> ELSE JsonLoads(column)

\* C23, state part: conversation_id is unique across the archive.
C23_UniqueIds ==
    \A i, j \in 1..Len(reference_conversations) :
        reference_conversations[i].conversation_id = reference_conversations[j].conversation_id
            => i = j

\* C23, step part: after archive_conversation under an id, whether the id
\* was archived before or not, exactly one conversation holds the id, with
\* the transcript, the message_count and the metadata of this call, and
\* the conversations held under other ids are what they were.
C23_ArchiveStep ==
    \A t \in Threads : \A a \in ReferenceInputs :
        (ArchiveConversation(t, a) /\ a.conversation_id # None) =>
            /\ Len(HeldUnder(reference_conversations', a.conversation_id)) = 1
            /\ LET row == HeldUnder(reference_conversations', a.conversation_id)[1]
               IN  /\ row.full_transcript = a.transcript
                   /\ row.message_count = Count(a.transcript, "\n") + 1
                   /\ result'[t].message_count = row.message_count
                   /\ row.title = a.title /\ row.summary = a.summary
                   /\ row.ended_at = a.ended_at
                   /\ Truthy(a.started_at) => row.started_at = a.started_at
                   /\ StoredList(row.participants) = a.participants
                   /\ StoredList(row.tags) = a.tags
            /\ HeldUnderOthers(reference_conversations', a.conversation_id)
                  = HeldUnderOthers(reference_conversations, a.conversation_id)

\* C23: archive_conversation called again with a conversation_id replaces
\* the conversation stored under it: one conversation per id in every
\* state, holding the last call's transcript, message_count and metadata,
\* and no conversation under another id is changed.
C23_Upsert == []C23_UniqueIds /\ [][C23_ArchiveStep]_vars

\* Two calls have archived under "c1", the second with the transcript
\* "second": the archive holds one conversation, the second call's.
C23_Witness ==
    /\ ref_seq = 2 /\ Len(reference_conversations) = 1
    /\ reference_conversations[1].id = 2
    /\ reference_conversations[1].conversation_id = "c1"
    /\ reference_conversations[1].full_transcript = "second"
    /\ \E t \in Threads : pc[t] = "done" /\ result[t].status = "archived"

\* Thread t is at the return of a get_conversation call.
GetDone(t) == pc[t] = "done" /\ result[t].status \in {"conversation", "absent"}

\* C24, state part: get_conversation returns a record exactly when a
\* conversation is stored under the id, and None otherwise; with an
\* empty archive every id is absent.
C24_GetState ==
    /\ \A t \in Threads :
          GetDone(t) =>
              /\ result[t].status = "conversation" <=>
                    \E r \in Range(reference_conversations) :
                        r.conversation_id = args[t].conversation_id
              /\ result[t].status = "conversation" =>
                    result[t].conversation_id = args[t].conversation_id
    /\ reference_conversations = <<>> =>
          \A id \in ConversationIds : GetConversationValue(id).status = "absent"

\* C24, step part: archive_conversation under an id makes get_conversation
\* of that id return the transcript, title, summary, participants and
\* tags of the call (a list that was omitted or empty comes back empty);
\* no other step changes what get_conversation returns for an
\* id, and get_conversation itself changes no stored state.
C24_GetStep ==
    /\ \A id \in ConversationIds :
          \/ GetConversationValue(id)' = GetConversationValue(id)
          \/ \E t \in Threads : \E a \in ReferenceInputs :
                /\ ArchiveConversation(t, a) /\ a.conversation_id = id
                /\ LET got == GetConversationValue(id)'
                   IN  /\ got.status = "conversation"
                       /\ got.full_transcript = a.transcript
                       /\ got.title = a.title /\ got.summary = a.summary
                       /\ got.participants = a.participants /\ got.tags = a.tags
    /\ \A t \in Threads : \A a \in ReferenceInputs :
          (ArchiveConversation(t, a) /\ a.conversation_id \in ConversationIds) =>
              LET got == GetConversationValue(a.conversation_id)'
              IN  /\ got.status = "conversation"
                  /\ got.full_transcript = a.transcript
                  /\ got.title = a.title /\ got.summary = a.summary
                  /\ got.participants = a.participants /\ got.tags = a.tags
    /\ \A t \in Threads :
          GetDone(t)' =>
              UNCHANGED <<engrams, sync_queue, queue_seq, hub, reference_conversations, ref_seq>>

Contains(text, part) ==
    \E i \in 1..(Len(text) - Len(part) + 1) :
        \A k \in 1..Len(part) :
            LowerChar(SubSeq(text, i + k - 1, i + k - 1)) = LowerChar(SubSeq(part, k, k))

\* A column that is not NULL contains part.
NullableContains(text, part) == text # None /\ Contains(text, part)

\* Thread t is at the return of a search_reference call.
SearchDone(t) == pc[t] = "done" /\ result[t].status = "references"

\* C25: search_reference(query, limit) returns at most limit
\* conversations; each contains query as a substring of its title,
\* summary, tags or transcript; they are in the order newest first and no
\* matching conversation newer than a returned one is left out; each
\* carries a preview, the first 500 characters of the transcript at most,
\* and not the transcript.
C25_SearchReturnsNewestMatches ==
    \A t \in Threads :
        SearchDone(t) =>
            LET rows == result[t].rows
                query == args[t].query
                Source(i) == HeldUnder(reference_conversations, rows[i].conversation_id)[1]
                Matching(r) ==
                    \/ NullableContains(r.title, query)
                    \/ NullableContains(r.summary, query)
                    \/ NullableContains(r.tags, query)
                    \/ NullableContains(r.full_transcript, query)
            IN  /\ Len(rows) <= args[t].limit
                /\ \A i \in 1..Len(rows) : Matching(Source(i))
                /\ \A i, j \in 1..Len(rows) :
                      i < j => Source(i).created_at >= Source(j).created_at
                /\ \A r \in Range(reference_conversations) :
                      (Matching(r) /\ \E i \in 1..Len(rows) : r.created_at > Source(i).created_at)
                          => \E i \in 1..Len(rows) : rows[i].conversation_id = r.conversation_id
                /\ \A i \in 1..Len(rows) :
                      /\ "full_transcript" \notin DOMAIN rows[i]
                      /\ Len(rows[i].preview) <= 500
                      /\ rows[i].preview
                            = SubSeq(Source(i).full_transcript, 1, Len(rows[i].preview))

\* Thread t is at the return of a recall call.
RecallDone(t) == pc[t] = "done" /\ result[t].status = "recalled"

\* Thread t runs recall.
Recalling(t) ==
    \/ pc[t] \in {"q_hub", "q_local"}
    \/ pc[t] = "done" /\ result[t].status \in {"recalled", "RequestException"}

\* The stored engram a returned row is a copy of.
EngramOf(row) == engrams[row.id]

\* C26: the local query for an owner returns only engrams of that owner
\* with importance >= min_importance, of the project when one is given,
\* with the text filter as a substring of the body when one is given; it
\* returns at most limit of them, newest first, and leaves out no such
\* engram that is newer than one it returns or while it returns fewer
\* than limit.
C26_LocalQuery ==
    \A t \in Threads :
        (RecallDone(t) /\ result[t].source = "local") =>
            LET rows == result[t].rows
                a == args[t]
                Wanted(e) ==
                    /\ e.agent_id = a.from_agent
                    /\ e.importance >= a.min_importance
                    /\ Truthy(a.project) => e.project = a.project
                    /\ Truthy(a.query) => Contains(e.digest, a.query)
            IN  /\ \A i \in 1..Len(rows) :
                      /\ rows[i].id \in 1..Len(engrams)
                      /\ EngramOf(rows[i]).digest = rows[i].digest
                      /\ rows[i].agent_id = a.from_agent
                      /\ Wanted(EngramOf(rows[i]))
                /\ Len(rows) <= a.limit
                /\ NewestFirst(rows)
                /\ \A i, j \in 1..Len(rows) : rows[i].id = rows[j].id => i = j
                /\ \A e \in Range(engrams) :
                      (/\ Wanted(e)
                       /\ \/ Len(rows) < a.limit
                          \/ \E i \in 1..Len(rows) : e.created_at > rows[i].created_at)
                          => \E i \in 1..Len(rows) : rows[i].id = e.id

\* C27, state part: a recall call whose request to the Hub raised (timeout,
\* connection error, non-2xx status) is on its way to the local query or
\* has returned, without an exception, exactly the rows of the local
\* query for its arguments.
C27_FallbackState ==
    \A t \in Threads :
        (Recalling(t) /\ hub_result[t].kind = "error") =>
            /\ pc[t] \in {"q_local", "done"}
            /\ pc[t] = "done" =>
                  /\ result[t].status = "recalled"
                  /\ result[t].rows =
                        RecallLocal(args[t].query, args[t].project, args[t].min_importance,
                                    args[t].limit, args[t].from_agent)

\* C27, step part: no step of a recall call changes the local store.
C27_FallbackStep ==
    \A t \in Threads :
        (Recalling(t) \/ Recalling(t)') =>
            UNCHANGED <<engrams, sync_queue, queue_seq, reference_conversations, ref_seq>>

\* C27: recall never fails because of the Hub: when the request to the
\* Hub raises, recall returns what the local query returns for the same
\* arguments, and the local store is unchanged.
C27_HubFailureFallsBack == []C27_FallbackState /\ [][C27_FallbackStep]_vars

\* A recall call has returned rows of the local store after its request
\* to the Hub raised, while the Hub holds an engram.
C27_Witness ==
    \E t \in Threads :
        /\ RecallDone(t) /\ hub_result[t].kind = "error"
        /\ result[t].rows # <<>> /\ hub # EmptyBag

\* Thread t takes one round of the loop of auto_capture in this step.
CaptureRound(t) ==
    pc[t] = "c_chunk" /\ capture'[t].index = capture[t].index + 1

\* The segment the round of thread t is about.
Segment(t) == capture[t].chunks[capture[t].index]

\* segment contains one of keywords.
HasKeyword(segment, keywords) ==
    \E k \in 1..Len(keywords) : Contains(segment, keywords[k])

\* The score of a segment, in tenths: 0.9 with a high-importance keyword,
\* otherwise 0.7 with a moderate-importance keyword, otherwise 0.5.
Score(segment) ==
    IF HasKeyword(segment, high_importance_keywords) THEN 9
    ELSE IF HasKeyword(segment, moderate_importance_keywords) THEN 7
    ELSE 5

\* round(score * 5) of a score in tenths, the half rounded up (4.5 gives
\* 5), clamped to 1..5.
RoundedImportance(score) ==
    LET rounded == (score + 1) \div 2
    IN  IF rounded < 1 THEN 1 ELSE IF rounded > 5 THEN 5 ELSE rounded

\* C28: the engram a round of auto_capture inserts for the segment it
\* retains has kind episodic and importance round(score * 5) clamped to
\* 1..5, an integer between 1 and 5: 5 for a segment with the keyword
\* critical (score 0.9).
C28_RetainedImportance ==
    [][\A t \in Threads :
          CaptureRound(t) /\ Len(engrams') = Len(engrams) + 1
              => LET e == engrams'[Len(engrams')]
                 IN  /\ e.type = "episodic"
                     /\ e.importance \in 1..5
                     /\ e.importance = RoundedImportance(Score(Segment(t)))]_vars

\* What holds of C28: kind episodic and an importance in 1..5, and the
\* importance int(score * 5), the fraction dropped: 4, 3 and 2 for the
\* scores 0.9, 0.7 and 0.5.
RetainedImportanceTruncated ==
    [][\A t \in Threads :
          CaptureRound(t) /\ Len(engrams') = Len(engrams) + 1
              => LET e == engrams'[Len(engrams')]
                 IN  /\ e.type = "episodic"
                     /\ e.importance \in 1..5
                     /\ e.importance = (Score(Segment(t)) * 5) \div 10]_vars

\* A segment with the keyword critical has been stored.
CriticalStored ==
    \E e \in Range(engrams) : e.digest = "This is a critical decision for the phoenix project"

\* Thread t is at the return of an auto_capture call.
CaptureDone(t) == pc[t] = "done" /\ result[t].status = "captured"

\* A segment passes the noise floor of 20 characters and the threshold
\* min_importance (in tenths).
Retained(segment, min_importance) ==
    Len(segment) >= 20 /\ Score(segment) >= min_importance

\* The body of a segment is in the local store.
InStore(segment) == \E e \in Range(engrams) : e.digest = ChunkDigest(segment)

\* A round of auto_capture hands its segment to remember and lists it
\* exactly when the segment is retained; otherwise it changes nothing in
\* the store, the queue or the Hub.
C29_Round ==
    \A t \in Threads :
        CaptureRound(t) =>
            LET listed == capture[t].captured_memories
                listed_after == capture'[t].captured_memories
            IN  IF Retained(Segment(t), args[t].min_importance)
                THEN /\ Len(listed_after) = Len(listed) + 1
                     /\ SubSeq(listed_after, 1, Len(listed)) = listed
                     /\ listed_after[Len(listed_after)].digest_preview
                            = DigestPreview(ChunkDigest(Segment(t)))
                     /\ \E e \in Range(engrams') : e.digest = ChunkDigest(Segment(t))
                     /\ \/ Len(engrams') = Len(engrams) + 1
                        \/ engrams' = engrams /\ InStore(Segment(t))
                ELSE /\ listed_after = listed
                     /\ UNCHANGED <<engrams, sync_queue, queue_seq, hub>>

\* The list auto_capture returns holds the retained segments of the
\* transcript, in their order, and no other.
C29_Returned ==
    \A t \in Threads :
        CaptureDone(t) =>
            LET kept == SelectSeq(capture[t].chunks,
                                  LAMBDA c : Retained(c, args[t].min_importance))
            IN  /\ result[t].engrams_created = Len(kept)
                /\ Len(result[t].memories) = Len(kept)
                /\ \A i \in 1..Len(kept) :
                       result[t].memories[i].digest_preview
                           = DigestPreview(ChunkDigest(kept[i]))

C30_ThreeScores ==
    [][\A t \in Threads :
          CaptureRound(t) /\ Len(Segment(t)) >= 20
              => /\ capture'[t].importance \in {5, 7, 9}
                 /\ capture'[t].importance = Score(Segment(t))
                 /\ HasKeyword(Segment(t), high_importance_keywords)
                        => capture'[t].importance = 9]_vars

\* auto_capture has just scored a segment with a high-importance and a
\* moderate-importance keyword: 0.9.
C30_Witness ==
    \E t \in Threads :
        /\ pc[t] \in {"c_chunk", "c_summary"}
        /\ capture[t].index > 1
        /\ LET scored == capture[t].chunks[capture[t].index - 1]
           IN  /\ Len(scored) >= 20
               /\ HasKeyword(scored, high_importance_keywords)
               /\ HasKeyword(scored, moderate_importance_keywords)
               /\ capture[t].importance = 9

\* The valence of a segment, in tenths: +0.7 with a positive keyword,
\* otherwise -0.3 with a negative keyword, otherwise 0.0.
Valence(segment) ==
    IF HasKeyword(segment, positive_keywords) THEN 7
    ELSE IF HasKeyword(segment, negative_keywords) THEN 0 - 3
    ELSE 0

\* C31: the valence auto_capture lists and stores for a retained segment is
\* +0.7 if the segment has a positive keyword (also with a negative one as
\* well), -0.3 if it has a negative keyword and no positive one, and 0.0
\* otherwise.
C31_ThreeValences ==
    [][\A t \in Threads :
          CaptureRound(t) /\ Retained(Segment(t), args[t].min_importance)
              => LET listed == capture'[t].captured_memories
                     entry == listed[Len(listed)]
                 IN  /\ entry.emotional_valence \in {7, 0 - 3, 0}
                     /\ entry.emotional_valence = Valence(Segment(t))
                     /\ HasKeyword(Segment(t), positive_keywords)
                            => entry.emotional_valence = 7
                     /\ Len(engrams') = Len(engrams) + 1
                            => engrams'[Len(engrams')].emotional_valence
                                   = Valence(Segment(t))]_vars

\* The store holds a segment with a positive and a negative keyword at
\* +0.7, one with a negative keyword only at -0.3 and one with neither at 0.
C31_Witness ==
    /\ \E e \in Range(engrams) :
          /\ e.digest = "My family is wonderful and I am worried"
          /\ HasKeyword(e.digest, negative_keywords)
          /\ e.emotional_valence = 7
    /\ \E e \in Range(engrams) :
          e.digest = "The server is broken since Monday." /\ e.emotional_valence = 0 - 3
    /\ \E e \in Range(engrams) :
          e.digest = "We deployed the new release today." /\ e.emotional_valence = 0

\* Thread t takes the last step of auto_capture, after the loop.
CaptureEnd(t) == pc[t] = "c_summary" /\ pc'[t] = "done"

\* C32: for a transcript longer than 100 characters auto_capture creates
\* exactly one more engram, the summary with the count of captured
\* segments and a preview, whatever min_importance is and also when no
\* segment is retained; for a transcript of at most 100 characters none.
C32_OneSummary ==
    [][\A t \in Threads :
          CaptureEnd(t)
              => IF Len(args[t].transcript) > 100
                 THEN /\ Len(engrams') = Len(engrams) + 1
                      /\ SubSeq(engrams', 1, Len(engrams)) = engrams
                      /\ engrams'[Len(engrams')].project = args[t].conversation_id
                      /\ Contains(engrams'[Len(engrams')].digest,
                                  "(" \o Decimal(result'[t].engrams_created) \o " engrams)")
                 ELSE engrams' = engrams]_vars

\* What holds of C32: the summary is handed to remember, which adds it
\* unless an engram with the same text is there already.
SummaryUnlessDuplicate ==
    [][\A t \in Threads :
          CaptureEnd(t)
              => IF Len(args[t].transcript) > 100
                 THEN \/ /\ Len(engrams') = Len(engrams) + 1
                         /\ SubSeq(engrams', 1, Len(engrams)) = engrams
                         /\ engrams'[Len(engrams')].project = args[t].conversation_id
                         /\ Contains(engrams'[Len(engrams')].digest,
                                     "(" \o Decimal(result'[t].engrams_created) \o " engrams)")
                      \/ /\ engrams' = engrams
                         /\ \E e \in Range(engrams) :
                               Contains(e.digest,
                                        "(" \o Decimal(result'[t].engrams_created)
                                            \o " engrams). Preview: "
                                            \o PySlice(args[t].transcript, 200))
                 ELSE engrams' = engrams]_vars

\* No segment of the transcript of thread t is retained.
NothingRetained(t) ==
    \A i \in 1..Len(capture[t].chunks) :
        ~Retained(capture[t].chunks[i], args[t].min_importance)

\* A call whose transcript has no segment at all goes on to its end.
C33_NoRoundOnNothing ==
    \A t \in Threads :
        pc[t] = "idle" /\ pc'[t] \in {"c_chunk", "c_summary"} /\ capture'[t].chunks = <<>>
            => pc'[t] = "c_summary"

\* Rounds are taken on segments only.
C33_RoundOnSegment ==
    \A t \in Threads :
        pc[t] = "c_chunk" => capture[t].index \in 1..Len(capture[t].chunks)

\* An auto_capture call that retained nothing returns the normal result
\* with no captures.
C33_Returned ==
    \A t \in Threads :
        pc[t] = "done" /\ "transcript" \in DOMAIN args[t] /\ NothingRetained(t)
            => /\ result[t].status = "captured"
               /\ result[t].engrams_created = 0
               /\ result[t].memories = <<>>

\* C33: auto_capture returns the normal result with engrams_created = 0
\* and an empty list for a transcript from which nothing is captured:
\* empty, blanks only, or every segment below the noise floor or the
\* threshold.
C33_NothingCaptured ==
    [](C33_Returned /\ C33_RoundOnSegment) /\ [][C33_NoRoundOnNothing]_vars

\* auto_capture returned for a transcript of blanks only, and, earlier,
\* for one whose segments were all dropped: the store is empty.
C33_Witness ==
    \E t \in Threads :
        /\ CaptureDone(t)
        /\ calls = 2
        /\ args[t].transcript = BlankTranscript
        /\ capture[t].chunks = <<>>
        /\ result[t].engrams_created = 0
        /\ engrams = <<>>

\* A retained segment is listed with stored true when its round adds an
\* engram and with stored false when remember finds its body in the store
\* already and adds none.
C37_Round ==
    \A t \in Threads :
        CaptureRound(t) /\ Retained(Segment(t), args[t].min_importance)
            => LET listed == capture'[t].captured_memories
               IN  /\ Len(listed) = Len(capture[t].captured_memories) + 1
                   /\ listed[Len(listed)].stored = (Len(engrams') = Len(engrams) + 1)
                   /\ InStore(Segment(t)) => engrams' = engrams /\ ~listed[Len(listed)].stored

\* engrams_created is the number of retained segments, duplicates included.
C37_Count ==
    \A t \in Threads :
        CaptureDone(t) =>
            /\ result[t].engrams_created =
                   Cardinality({i \in 1..Len(capture[t].chunks) :
                                   Retained(capture[t].chunks[i], args[t].min_importance)})
            /\ result[t].engrams_created = Len(result[t].memories)

\* C37: engrams_created counts the segments that passed the noise floor and
\* the threshold, those that remember called duplicate (listed with stored
\* false) included: a second capture of a transcript reports the same count
\* and adds no segment engram.
C37_CountsDuplicates == []C37_Count /\ [][C37_Round]_vars

\* The second capture of a transcript returned: two segments counted, both
\* listed with stored false.
C37_Witness ==
    \E t \in Threads :
        /\ CaptureDone(t)
        /\ result[t].engrams_created = 2
        /\ \A i \in 1..2 : ~result[t].memories[i].stored
        /\ args[t].transcript = MixedTranscript

\* The rows sync_pending read whose upload the Hub did not accept.
FailedRows(t) == SelectSeq(pending[t], LAMBDA r : Deliveries(r.id) = {})

\* C36: (calls made one after the other) at the return of sync_pending,
\* synced + failed is the number of entries the queue held when the call
\* started, the queue holds exactly the entries whose upload failed, and
\* remaining is the length of the queue.
C36_SyncCounts ==
    \A t \in Threads :
        SyncDone(t) =>
            /\ result[t].synced + result[t].failed = Len(pending[t])
            /\ result[t].failed = Len(FailedRows(t))
            /\ sync_queue = FailedRows(t)
            /\ result[t].remaining = Len(sync_queue)

\* A sync_pending call over two entries has returned: one delivered, one
\* failed and still queued.
C36_Witness ==
    \E t \in Threads :
        /\ SyncDone(t) /\ Len(pending[t]) = 2
        /\ result[t].synced = 1 /\ result[t].failed = 1
        /\ Len(sync_queue) = 1

\* The engrams of the bridge's own agent the recent tier is recalled from:
\* importance >= 3 and, with a query, the query in the body.
RecentCandidates(query) ==
    {e \in Range(engrams) :
        /\ e.agent_id = "claude" /\ e.importance >= 3
        /\ Truthy(query) => Contains(e.digest, query)}

\* The n newest rows of a set.
NewestOf(rows, n) ==
    {e \in rows : Cardinality({x \in rows : x.created_at > e.created_at}) < n}

\* The rows whose leading 50 characters are those of no item of the
\* important tier of thread t.
NotInImportant(rows, t) ==
    {e \in rows :
        \A j \in 1..Len(important[t]) :
            PySlice(e.digest, 50) # PySlice(important[t][j].digest, 50)}

\* The recent tier as C38 states it: of the newest memory_limit engrams
\* with importance >= 3, those that match no item of the important tier,
\* the first floor(memory_limit / 2) of them.
ExpectedRecent(t) ==
    NewestOf(NotInImportant(NewestOf(RecentCandidates(args[t].query), args[t].memory_limit), t),
             args[t].memory_limit \div 2)

\* The Hub holds no engram that a recall of the recent tier would return.
HubSilent(t) ==
    \A h \in BagToSet(hub) :
        ~(h.engram.importance >= 3
            /\ (Truthy(args[t].query) => Contains(h.engram.digest, args[t].query)))

\* The recent tier of thread t is the expected one, newest first.
RecentAsExpected(t) ==
    /\ {m.digest : m \in Range(recent_unique[t])} = {e.digest : e \in ExpectedRecent(t)}
    /\ Len(recent_unique[t]) = Cardinality(ExpectedRecent(t))
    /\ NewestFirst(recent_unique[t])

Missing(request, field) == ~request.json \/ field \notin DOMAIN request.fields

\* Thread t takes a request in this step and answers it with an error at
\* once, and nothing is written and the Hub is not called.
Rejected(t) ==
    /\ pc[t] = "idle" /\ pc'[t] = "done"
    /\ "error" \in DOMAIN result'[t] /\ result'[t].code = 400
    /\ UNCHANGED <<engrams, sync_queue, queue_seq, reference_conversations, ref_seq, hub>>

\* C34: a request without its required field (remember without digest;
\* archive, auto_capture or session_end without transcript) is rejected at
\* once with an error, and creates no engram, no reference conversation
\* and no sync-queue entry and makes no Hub call.
C34_MissingFieldRejected ==
    [][\A t \in Threads :
          /\ \A i \in DOMAIN RememberRequests :
                (PostRemember(t, RememberRequests[i]) /\ Missing(RememberRequests[i], "digest"))
                    => Rejected(t)
          /\ \A i \in DOMAIN ArchiveRequests :
                (PostArchive(t, ArchiveRequests[i]) /\ Missing(ArchiveRequests[i], "transcript"))
                    => Rejected(t)
          /\ \A i \in DOMAIN CaptureRequests :
                (PostAutoCapture(t, CaptureRequests[i])
                    /\ Missing(CaptureRequests[i], "transcript"))
                    => Rejected(t)
          /\ \A i \in DOMAIN SessionRequests :
                (PostSessionEnd(t, SessionRequests[i])
                    /\ Missing(SessionRequests[i], "transcript"))
                    => Rejected(t)]_vars

\* A request without transcript has been rejected over a store, a queue
\* and an archive that are not empty.
C34_Witness ==
    \E t \in Threads :
        /\ pc[t] = "done" /\ "error" \in DOMAIN result[t]
        /\ result[t].error = "transcript required"
        /\ engrams # <<>> /\ sync_queue # <<>> /\ reference_conversations # <<>>

\* Thread t is at the return of a session_end call.
SessionDone(t) == pc[t] = "done" /\ result[t].status = "session_archived"

\* The archive holds the transcript of the session of thread t, in the one
\* conversation under its session_id.
SessionArchived(t) ==
    /\ GetConversationValue(args[t].conversation_id).status = "conversation"
    /\ GetConversationValue(args[t].conversation_id).full_transcript = args[t].transcript
    /\ Len(HeldUnder(reference_conversations, args[t].conversation_id)) = 1

\* The segments of the session of thread t that auto_capture retains at
\* its threshold 0.6.
SessionSegments(t) ==
    {capture[t].chunks[i] : i \in {j \in 1..Len(capture[t].chunks) :
                                      Retained(capture[t].chunks[j], 6)}}

\* C35: after session_end(transcript, session_id) returns, whatever the
\* Hub answered, get_conversation(session_id) returns the whole transcript
\* from the one conversation under that id (a second call with the id
\* replaces the first), every segment auto_capture retains is in the local
\* store under project = session_id, and so is a session summary engram.
C35_NothingLost ==
    \A t \in Threads :
        SessionDone(t) =>
            /\ SessionArchived(t)
            /\ \A segment \in SessionSegments(t) :
                  \E e \in Range(engrams) :
                      e.digest = ChunkDigest(segment) /\ e.project = args[t].conversation_id
            /\ \E e \in Range(engrams) :
                  /\ Contains(e.digest, "Session ended: " \o args[t].title)
                  /\ e.project = args[t].conversation_id

\* What holds of C35: the transcript is archived under the session_id, and
\* the retained segments and the session summary are in the local store,
\* under the project of the call that stored them first.
SessionKeptSomewhere ==
    \A t \in Threads :
        SessionDone(t) =>
            /\ SessionArchived(t)
            /\ \A segment \in SessionSegments(t) : InStore(segment)
            /\ \E e \in Range(engrams) :
                  Contains(e.digest, "Session ended: " \o args[t].title)

\* A second session_end under the session_id "s1" has returned: the
\* archive holds its transcript alone under the id.
SessionReplaced ==
    \E t \in Threads :
        /\ SessionDone(t) /\ args[t].conversation_id = "s1"
        /\ args[t].transcript = "Grok said the plan works"
        /\ ref_seq = 2 /\ Len(reference_conversations) = 1


\* The sessions that stop_practice ended: their row has status 'stopped'.
Stopped(id) == practice_sessions[id].status = "stopped"

\* C39: a practice session ended by stop_practice keeps the status 'stopped'
\* and the ended_at that stop_practice wrote; no later step, of the loop
\* thread of that session in particular, changes its row.
C39_StoppedKept ==
    [][\A id \in DOMAIN practice_sessions :
           Stopped(id) => practice_sessions'[id] = practice_sessions[id]]_vars

\* A session that stop_practice ended and whose loop then wrote 'completed'
\* over it: stop_practice returned its report with status 'stopped' and the
\* row now differs from that report.
StoppedOverwritten ==
    \E t \in Threads :
        /\ pc[t] = "done"
        /\ "ended_at" \in DOMAIN result[t]
        /\ result[t].status = "stopped"
        /\ practice_sessions[result[t].session_id].status = "completed"
        /\ practice_sessions[result[t].session_id].ended_at > result[t].ended_at


\* The sessions whose row has status 'active'.
ActiveSessions == {id \in DOMAIN practice_sessions : practice_sessions[id].status = "active"}

\* The sessions whose loop thread is in its while loop and would pass the
\* test of is_practicing.
RunningLoops == {id \in DOMAIN practice_thread : practice_thread[id] = "while" /\ is_practicing}

\* start_practice called while is_practicing holds returns the error and
\* creates no row and no thread.
StartRefused ==
    \A t \in Threads :
        StartPractice(t) /\ is_practicing
            => /\ "error" \in DOMAIN result'[t]
               /\ pc'[t] = "done"
               /\ UNCHANGED <<practice_sessions, practice_thread, current_session>>

\* The loop thread of a session that is not the current one ends without
\* touching is_practicing and current_session.
EndsAlone ==
    \A id \in DOMAIN practice_thread :
        EndPractice(id, "completed") /\ current_session # id
            => UNCHANGED <<is_practicing, current_session>>

\* C40: at most one practice session is active at a time and no more than
\* one loop runs; start_practice during a session is refused and creates
\* nothing; the loop of an earlier session ends without clearing
\* is_practicing or current_session of the session that followed it.
C40_OneSession ==
    /\ [](Cardinality(ActiveSessions) <= 1 /\ Cardinality(RunningLoops) <= 1)
    /\ [][StartRefused /\ EndsAlone]_vars

\* The parts of C40, one by one.
OneActive == Cardinality(ActiveSessions) <= 1
OneLoop == Cardinality(RunningLoops) <= 1
StartRefusedAlways == [][StartRefused]_vars
EndsAloneAlways == [][EndsAlone]_vars

\* The loop of the stopped session 1 has ended and cleared the state of
\* session 2, which was started after it and whose row is still active.
NewSessionCleared ==
    /\ Len(practice_sessions) = 2
    /\ practice_thread[1] = "ended"
    /\ practice_thread[2] = "while"
    /\ practice_sessions[2].status = "active"
    /\ ~is_practicing
    /\ current_session = 0
====
